---- MODULE Spec2Model ----
(***************************************************************************)
(* Authentication core of ninjarmm_mcp: the TokenInfo record, the          *)
(* TokenManager store with its JSON persistence, the credential selector   *)
(* AuthStatus.get_best_token and AuthenticationManager.authenticate with   *)
(* its refresh / client-credentials / user-authorization branches,         *)
(* injection, start-up, re-authorization and the callback listener of the  *)
(* OAuth2 client.                                                          *)
(*                                                                         *)
(* Conventions.  Python None is the string NONE where the value is a       *)
(* string, and the empty tuple where it is a datetime (a datetime t is     *)
(* the tuple <<t>>).  A key missing from a token-endpoint response is      *)
(* ABSENT.  The clock counts ticks, TicksPerSecond of them per second      *)
(* (datetime has 10^6); one operation reads the clock at one instant.      *)
(* Operation names are tuples of characters so that lower() and the        *)
(* substring test are computed, not assumed.                               *)
(***************************************************************************)
EXTENDS Integers, Sequences, FiniteSets, TLC

VARIABLES now, tokens, file, capabilities, has_machine_credentials, auth_mode, last,
          oauth, callers

vars == <<now, tokens, file, capabilities, has_machine_credentials, auth_mode, last,
          oauth, callers>>

---------------------------------------------------------------------------
(* Bounds of the model *)

MaxNow == 2
TicksPerSecond == 2
MaxExpiresIn == 2
MaxElapsed == 902

---------------------------------------------------------------------------
(* Values *)

NONE == "<None>"
ABSENT == "<absent>"
NoTime == << >>

Slots == {"client", "user"}

Truthy(s) == s # NONE /\ s # ""

\* a local binding evaluated once: F applied to the value of x
With(x, F(_)) == CHOOSE out \in {F(v) : v \in {x}} : TRUE

DefaultScopes == "monitoring management control"

---------------------------------------------------------------------------
(* models/auth.py: TokenInfo *)

TokenInfo(access_token, refresh_token, expires_at, scope, valid) ==
    [access_token |-> access_token, refresh_token |-> refresh_token,
     expires_at |-> expires_at, scope |-> scope, token_type |-> "Bearer",
     valid |-> valid]

EmptyToken == TokenInfo(NONE, NONE, NoTime, NONE, FALSE)

is_expired(t, clock) ==
    IF t.expires_at = NoTime THEN TRUE ELSE clock >= t.expires_at[1]

\* mutant: the valid flag is not consulted
is_valid_ignores_flag(t, clock) ==
    Truthy(t.access_token) /\ ~is_expired(t, clock)

is_valid(t, clock) ==
    t.valid /\ Truthy(t.access_token) /\ ~is_expired(t, clock)

---------------------------------------------------------------------------
(* Operation names: str.lower() and the substring test *)

Upper == <<"A","B","C","D","E","F","G","H","I","J","K","L","M",
           "N","O","P","Q","R","S","T","U","V","W","X","Y","Z">>
Lower == <<"a","b","c","d","e","f","g","h","i","j","k","l","m",
           "n","o","p","q","r","s","t","u","v","w","x","y","z">>

lower_char(c) ==
    CASE c = "T" -> "t" [] c = "I" -> "i" [] c = "C" -> "c" [] c = "K" -> "k"
      [] c = "E" -> "e" [] c = "L" -> "l" [] c = "S" -> "s"
      [] OTHER -> IF \E i \in 1..Len(Upper) : Upper[i] = c
                  THEN Lower[CHOOSE i \in 1..Len(Upper) : Upper[i] = c]
                  ELSE c

lower(s) == [i \in 1..Len(s) |-> lower_char(s[i])]

Contains(needle, s) ==
    \E i \in 1..(Len(s) - Len(needle) + 1) :
        SubSeq(s, i, i + Len(needle) - 1) = needle

TicketWord == <<"t","i","c","k","e","t">>

OpNone == <<"<None>">>

OpTruthy(op) == op # OpNone /\ op # << >>

\* operation names that occur in the model
get_devices == <<"g","e","t","_","d","e","v","i","c","e","s">>
create_ticket == <<"c","r","e","a","t","e","_","t","i","c","k","e","t">>
List_Tickets == <<"L","i","s","t","_","T","i","c","k","e","t","s">>
TICKET == <<"T","I","C","K","E","T">>
tick_et == <<"t","i","c","k","_","e","t">>

OperationNames ==
    {OpNone, << >>, get_devices, create_ticket, List_Tickets, TICKET, tick_et}

\* str.lower() and the test "ticket" in s, tabulated over OperationNames
LowerOf == [op \in OperationNames |-> lower(op)]

ContainingTicket == {s \in OperationNames \cup {LowerOf[op] : op \in OperationNames} :
                        Contains(TicketWord, s)}

\* mutant: the name is not lower-cased
is_ticket_case_sensitive(op) == OpTruthy(op) /\ op \in ContainingTicket

\* operation and "ticket" in operation.lower()
is_ticket_operation(op) == OpTruthy(op) /\ LowerOf[op] \in ContainingTicket

---------------------------------------------------------------------------
(* models/auth.py: AuthStatus.get_best_token.  The result is << >> for    *)
(* None and <<record>> for a TokenInfo.                                    *)

\* mutants of the selector: ticket operations fall back to the client
\* record; other operations never fall back to the user record
get_best_token_client_fallback(toks, op, clock) ==
    IF is_valid(toks["client"], clock) THEN <<toks["client"]>>
    ELSE IF is_valid(toks["user"], clock) THEN <<toks["user"]>>
    ELSE << >>

get_best_token_no_user_fallback(toks, op, clock) ==
    IF is_ticket_operation(op)
    THEN IF is_valid(toks["user"], clock) THEN <<toks["user"]>> ELSE << >>
    ELSE IF is_valid(toks["client"], clock) THEN <<toks["client"]>>
    ELSE << >>

get_best_token(toks, op, clock) ==
    IF is_ticket_operation(op)
    THEN IF is_valid(toks["user"], clock) THEN <<toks["user"]>> ELSE << >>
    ELSE IF is_valid(toks["client"], clock) THEN <<toks["client"]>>
    ELSE IF is_valid(toks["user"], clock) THEN <<toks["user"]>>
    ELSE << >>

\* mutant: a refresh token held by either record counts
update_capabilities_any_refresh(toks, clock) ==
    [can_use_client_credentials |-> is_valid(toks["client"], clock),
     can_use_user_auth |-> is_valid(toks["user"], clock),
     supports_refresh |-> Truthy(toks["user"].refresh_token)
                          \/ Truthy(toks["client"].refresh_token)]

update_capabilities(toks, clock) ==
    [can_use_client_credentials |-> is_valid(toks["client"], clock),
     can_use_user_auth |-> is_valid(toks["user"], clock),
     supports_refresh |-> Truthy(toks["user"].refresh_token)]

NoCapabilities ==
    [can_use_client_credentials |-> FALSE, can_use_user_auth |-> FALSE,
     supports_refresh |-> FALSE]

---------------------------------------------------------------------------
(* auth/tokens.py: TokenManager *)

EmptyStore == [s \in Slots |-> EmptyToken]

Put(toks, k, v) == [x \in (DOMAIN toks) \cup {k} |-> IF x = k THEN v ELSE toks[x]]

\* mutant: the fraction of a second is dropped
isoformat_seconds_only(t) == <<t \div TicksPerSecond>>

\* datetime.isoformat(): the fraction is omitted when it is zero
isoformat(t) ==
    IF t % TicksPerSecond = 0
    THEN <<t \div TicksPerSecond>>
    ELSE <<t \div TicksPerSecond, t % TicksPerSecond>>

fromisoformat(s) ==
    IF Len(s) = 1 THEN s[1] * TicksPerSecond ELSE s[1] * TicksPerSecond + s[2]

\* model_dump() of one record with expires_at turned into its ISO string
dump_token(t) ==
    [t EXCEPT !.expires_at = IF t.expires_at # NoTime THEN isoformat(t.expires_at[1]) ELSE NoTime]

\* TokenInfo(**token_data) with expires_at parsed back
parse_token(d) ==
    [d EXCEPT !.expires_at = IF d.expires_at # NoTime THEN <<fromisoformat(d.expires_at)>> ELSE NoTime]

\* the token file: whether it exists, whether json.loads accepts its
\* content, its entries and the order they are written in.  origin is not
\* content: it records who wrote the file last
NoFile == [exists |-> FALSE, origin |-> "none", readable |-> TRUE,
           order |-> << >>, data |-> << >>]

\* the iteration order of self._tokens
SlotOrder == <<"client", "user">>

\* mutant: only the populated slots are written
save_tokens_populated_only(toks) ==
    [exists |-> TRUE, origin |-> "saved", readable |-> TRUE,
     order |-> SelectSeq(SlotOrder, LAMBDA s : toks[s] # EmptyToken),
     data |-> [s \in {x \in DOMAIN toks : toks[x] # EmptyToken} |-> dump_token(toks[s])]]

\* a slot name that is neither "client" nor "user" nor "all"
OtherSlot == "session"

\* the keys of self._tokens in the order they were first assigned
key_order(toks) ==
    IF OtherSlot \in DOMAIN toks THEN SlotOrder \o <<OtherSlot>> ELSE SlotOrder

\* save_tokens: the whole store is written
save_tokens(toks) ==
    [exists |-> TRUE, origin |-> "saved", readable |-> TRUE,
     order |-> key_order(toks),
     data |-> [s \in DOMAIN toks |-> dump_token(toks[s])]]

\* mutant: a write that fails removes the file
failed_write_removes_file(f) == NoFile

\* a save_tokens whose write raises: the exception is logged and the file
\* stays as it was
failed_write(f) == IF f.origin = "saved" THEN [f EXCEPT !.origin = "stale"] ELSE f

\* a save_tokens whose write raises after open(path, 'w') has emptied the
\* file: what is left is not JSON
cut_short(f) ==
    [exists |-> TRUE, origin |-> "cut", readable |-> FALSE, order |-> << >>,
     data |-> << >>]

\* the files a save_tokens call can leave
persist(f, toks, ok) ==
    IF ok THEN {save_tokens(toks)} ELSE {failed_write(f), cut_short(f)}

\* what datetime.fromisoformat accepts
iso_ok(s) == Len(s) \in {1, 2}

\* an entry load_tokens can turn into a TokenInfo
entry_ok(d) == d.expires_at = NoTime \/ iso_ok(d.expires_at)

\* lines 36-42: the entries are taken in file order; an entry that raises
\* ends the loop and leaves what earlier entries assigned
RECURSIVE load_entries(_, _, _)
load_entries(toks, f, i) ==
    IF i > Len(f.order) THEN toks
    ELSE IF f.order[i] \notin DOMAIN toks THEN load_entries(toks, f, i + 1)
    ELSE IF ~entry_ok(f.data[f.order[i]]) THEN toks
    ELSE load_entries(Put(toks, f.order[i], parse_token(f.data[f.order[i]])), f, i + 1)

load_tokens(toks, f) ==
    IF ~f.exists THEN toks
    ELSE IF ~f.readable THEN toks
    ELSE load_entries(toks, f, 1)

\* mutant: the full lifetime is taken
expiry_seconds_full(expires_in) == expires_in

\* int(expires_in * 0.9)
expiry_seconds(expires_in) == (expires_in * 9) \div 10

\* mutant: a refresh token that is not supplied is kept from the old record
set_token_keeps_refresh(toks, token_type, access_token, expires_in, refresh_token, scope, clock) ==
    Put(toks, token_type,
        TokenInfo(access_token,
                  IF refresh_token = NONE THEN toks[token_type].refresh_token
                  ELSE refresh_token,
                  <<clock + expiry_seconds(expires_in) * TicksPerSecond>>,
                  scope, TRUE))

set_token(toks, token_type, access_token, expires_in, refresh_token, scope, clock) ==
    Put(toks, token_type,
        TokenInfo(access_token, refresh_token,
                  <<clock + expiry_seconds(expires_in) * TicksPerSecond>>,
                  scope, TRUE))

\* mutant: clearing leaves the record in place
clear_token_keeps_record(toks, token_type) == toks

\* mutant: clearing one slot resets the whole store
clear_token_resets_store(toks, token_type) == [s \in DOMAIN toks |-> EmptyToken]

clear_token(toks, token_type) == Put(toks, token_type, EmptyToken)

\* mutant: only the client slot is reset
clear_all_tokens_client_only(toks) == Put(toks, "client", EmptyToken)

clear_all_tokens(toks) == EmptyStore

---------------------------------------------------------------------------
(* Inputs: operation names, token-endpoint responses, injected tokens *)

\* operation names authenticate is called with
Ops == {OpNone, get_devices, create_ticket, List_Tickets}

ExpiresIns == 1..MaxExpiresIn

Failure == [ok |-> FALSE, access_token |-> ABSENT, expires_in |-> 0,
            refresh_token |-> ABSENT, scope |-> ABSENT]

Response(access_token, expires_in, refresh_token, scope) ==
    [ok |-> TRUE, access_token |-> access_token, expires_in |-> expires_in,
     refresh_token |-> refresh_token, scope |-> scope]

ClientCredentialsResponses ==
    {Failure} \cup {Response("cc1", e, ABSENT, "monitoring") : e \in ExpiresIns}

\* outcome of get_user_authorization_token: the callback captured an
\* error, the wait timed out, or a code was captured and exchanged
UserAuthorizationOutcomes ==
    {[listener |-> "error", exchange |-> Failure],
     [listener |-> "timeout", exchange |-> Failure],
     [listener |-> "code", exchange |-> Failure]}
    \cup {[listener |-> "code", exchange |-> Response("ua1", e, r, ABSENT)] :
            e \in ExpiresIns, r \in {ABSENT, "rt1"}}

RefreshResponses ==
    {Failure} \cup {Response("rf1", e, r, ABSENT) : e \in ExpiresIns, r \in {ABSENT, "rt2"}}

\* dict.get(key) and dict.get(key, default) on a response
get(td, key) == IF td[key] = ABSENT THEN NONE ELSE td[key]

get_default(td, key, default) == IF td[key] = ABSENT THEN default ELSE td[key]

---------------------------------------------------------------------------
(* auth/manager.py: the three flows.  Each yields the store after it, the  *)
(* token-endpoint exchanges it performed, whether it started the callback  *)
(* listener, the number of save_tokens calls and whether it raised.        *)

Step(toks, calls, listener, saves, raised) ==
    [tokens |-> toks, calls |-> calls, listener |-> listener, saves |-> saves,
     raised |-> raised]

\* mutant: a failed exchange empties the client slot
authenticate_client_credentials_clears(toks, hmc, resp, clock) ==
    IF ~hmc THEN Step(toks, << >>, FALSE, 0, TRUE)
    ELSE IF ~resp.ok
    THEN Step(clear_token(toks, "client"), <<"client_credentials">>, FALSE, 1, TRUE)
    ELSE Step(set_token(toks, "client", resp.access_token, resp.expires_in,
                        NONE, get(resp, "scope"), clock),
              <<"client_credentials">>, FALSE, 1, FALSE)

authenticate_client_credentials(toks, hmc, resp, clock) ==
    IF ~hmc THEN Step(toks, << >>, FALSE, 0, TRUE)
    ELSE IF ~resp.ok THEN Step(toks, <<"client_credentials">>, FALSE, 0, TRUE)
    ELSE Step(set_token(toks, "client", resp.access_token, resp.expires_in,
                        NONE, get(resp, "scope"), clock),
              <<"client_credentials">>, FALSE, 1, FALSE)

authenticate_user_authorization(toks, hmc, outcome, clock) ==
    IF ~hmc THEN Step(toks, << >>, FALSE, 0, TRUE)
    ELSE IF outcome.listener # "code" THEN Step(toks, << >>, TRUE, 0, TRUE)
    ELSE IF ~outcome.exchange.ok THEN Step(toks, <<"authorization_code">>, TRUE, 0, TRUE)
    ELSE Step(set_token(toks, "user", outcome.exchange.access_token,
                        outcome.exchange.expires_in,
                        get(outcome.exchange, "refresh_token"),
                        get(outcome.exchange, "scope"), clock),
              <<"authorization_code">>, TRUE, 1, FALSE)

\* mutants of the refresh: the machine-credentials guard is missing; the
\* stored refresh token is not carried over
refresh_user_token_unguarded(toks, hmc, resp, clock) ==
    IF ~Truthy(toks["user"].refresh_token) THEN Step(toks, << >>, FALSE, 0, TRUE)
    ELSE IF ~resp.ok THEN Step(toks, <<"refresh_token">>, FALSE, 0, TRUE)
    ELSE Step(set_token(toks, "user", resp.access_token, resp.expires_in,
                        get_default(resp, "refresh_token", toks["user"].refresh_token),
                        get(resp, "scope"), clock),
              <<"refresh_token">>, FALSE, 1, FALSE)

refresh_user_token_drops_old(toks, hmc, resp, clock) ==
    IF ~hmc THEN Step(toks, << >>, FALSE, 0, TRUE)
    ELSE IF ~Truthy(toks["user"].refresh_token) THEN Step(toks, << >>, FALSE, 0, TRUE)
    ELSE IF ~resp.ok THEN Step(toks, <<"refresh_token">>, FALSE, 0, TRUE)
    ELSE Step(set_token(toks, "user", resp.access_token, resp.expires_in,
                        get(resp, "refresh_token"),
                        get(resp, "scope"), clock),
              <<"refresh_token">>, FALSE, 1, FALSE)

refresh_user_token(toks, hmc, resp, clock) ==
    IF ~hmc THEN Step(toks, << >>, FALSE, 0, TRUE)
    ELSE IF ~Truthy(toks["user"].refresh_token) THEN Step(toks, << >>, FALSE, 0, TRUE)
    ELSE IF ~resp.ok THEN Step(toks, <<"refresh_token">>, FALSE, 0, TRUE)
    ELSE Step(set_token(toks, "user", resp.access_token, resp.expires_in,
                        get_default(resp, "refresh_token", toks["user"].refresh_token),
                        get(resp, "scope"), clock),
              <<"refresh_token">>, FALSE, 1, FALSE)

---------------------------------------------------------------------------
(* auth/manager.py: AuthenticationManager.authenticate *)

AuthModes == {"client", "user", "hybrid"}

\* mutant: the flow follows the ticket rule in every auth mode
select_flow_by_ticket_rule(mode, op) ==
    IF is_ticket_operation(op) THEN "user" ELSE "client"

\* lines 138-152: which flow runs once machine credentials are known to exist
select_flow(mode, op) ==
    IF mode = "client"
       \/ (mode = "hybrid" /\ OpTruthy(op) /\ LowerOf[op] \notin ContainingTicket)
    THEN "client"
    ELSE IF mode = "user"
            \/ (mode = "hybrid" /\ OpTruthy(op) /\ LowerOf[op] \in ContainingTicket)
    THEN "user"
    ELSE "client"

Outcome(toks, calls, listener, saves, ok, value, path) ==
    [tokens |-> toks, calls |-> calls, listener |-> listener, saves |-> saves,
     ok |-> ok, value |-> value, path |-> path]

run_flow(flow, toks, hmc, cr, uo, clock) ==
    IF flow = "client"
    THEN authenticate_client_credentials(toks, hmc, cr, clock)
    ELSE authenticate_user_authorization(toks, hmc, uo, clock)

\* mutant: the injection-only branch of lines 132-137 is missing
authenticate_flow_no_injection_branch(toks, calls, saves, hmc, mode, op, cr, uo, clock) ==
    With(select_flow(mode, op), LAMBDA flow :
    With(run_flow(flow, toks, hmc, cr, uo, clock), LAMBDA f :
    With(get_best_token(f.tokens, op, clock), LAMBDA token :
        IF f.raised
        THEN Outcome(f.tokens, calls \o f.calls, f.listener, saves + f.saves, FALSE,
                     flow \o "_flow_failed", flow \o "_flow")
        ELSE IF token = << >> \/ ~is_valid(token[1], clock)
        THEN Outcome(f.tokens, calls \o f.calls, f.listener, saves + f.saves, FALSE,
                     "authentication_failed", flow \o "_flow")
        ELSE Outcome(f.tokens, calls \o f.calls, f.listener, saves + f.saves, TRUE,
                     token[1].access_token, flow \o "_flow"))))

\* mutant: after a flow the token that flow stored is returned without the
\* final check of lines 154-157
authenticate_flow_unchecked(toks, calls, saves, hmc, mode, op, cr, uo, clock) ==
    IF ~hmc
    THEN IF ~is_valid(toks["user"], clock)
         THEN Outcome(toks, calls, FALSE, saves, FALSE, "no_credentials", "no_credentials")
         ELSE Outcome(toks, calls, FALSE, saves, TRUE, toks["user"].access_token,
                      "injected_user")
    ELSE With(select_flow(mode, op), LAMBDA flow :
         With(run_flow(flow, toks, hmc, cr, uo, clock), LAMBDA f :
             IF f.raised
             THEN Outcome(f.tokens, calls \o f.calls, f.listener, saves + f.saves, FALSE,
                          flow \o "_flow_failed", flow \o "_flow")
             ELSE Outcome(f.tokens, calls \o f.calls, f.listener, saves + f.saves, TRUE,
                          f.tokens[flow].access_token, flow \o "_flow")))

\* lines 131-159, entered with the store `toks` (which is also what the
\* status snapshot holds), the exchanges and file writes made so far
\* mutant: the injection-only branch looks at the valid flag and not at the
\* expiry
authenticate_flow_flag_only(toks, calls, saves, hmc, mode, op, cr, uo, clock) ==
    IF ~hmc
    THEN IF ~toks["user"].valid
         THEN Outcome(toks, calls, FALSE, saves, FALSE, "no_credentials", "no_credentials")
         ELSE Outcome(toks, calls, FALSE, saves, TRUE, toks["user"].access_token,
                      "injected_user")
    ELSE With(select_flow(mode, op), LAMBDA flow :
         With(run_flow(flow, toks, hmc, cr, uo, clock), LAMBDA f :
         With(get_best_token(f.tokens, op, clock), LAMBDA token :
             IF f.raised
             THEN Outcome(f.tokens, calls \o f.calls, f.listener, saves + f.saves, FALSE,
                          flow \o "_flow_failed", flow \o "_flow")
             ELSE IF token = << >> \/ ~is_valid(token[1], clock)
             THEN Outcome(f.tokens, calls \o f.calls, f.listener, saves + f.saves, FALSE,
                          "authentication_failed", flow \o "_flow")
             ELSE Outcome(f.tokens, calls \o f.calls, f.listener, saves + f.saves, TRUE,
                          token[1].access_token, flow \o "_flow"))))

\* mutant: a flow whose token the selector would not return for op is not
\* run
authenticate_flow_skips_unusable_flow(toks, calls, saves, hmc, mode, op, cr, uo, clock) ==
    IF ~hmc
    THEN IF ~is_valid(toks["user"], clock)
         THEN Outcome(toks, calls, FALSE, saves, FALSE, "no_credentials", "no_credentials")
         ELSE Outcome(toks, calls, FALSE, saves, TRUE, toks["user"].access_token,
                      "injected_user")
    ELSE IF select_flow(mode, op) = "client" /\ is_ticket_operation(op)
    THEN Outcome(toks, calls, FALSE, saves, FALSE, "authentication_failed", "client_flow")
    ELSE With(select_flow(mode, op), LAMBDA flow :
         With(run_flow(flow, toks, hmc, cr, uo, clock), LAMBDA f :
         With(get_best_token(f.tokens, op, clock), LAMBDA token :
             IF f.raised
             THEN Outcome(f.tokens, calls \o f.calls, f.listener, saves + f.saves, FALSE,
                          flow \o "_flow_failed", flow \o "_flow")
             ELSE IF token = << >> \/ ~is_valid(token[1], clock)
             THEN Outcome(f.tokens, calls \o f.calls, f.listener, saves + f.saves, FALSE,
                          "authentication_failed", flow \o "_flow")
             ELSE Outcome(f.tokens, calls \o f.calls, f.listener, saves + f.saves, TRUE,
                          token[1].access_token, flow \o "_flow"))))

authenticate_flow(toks, calls, saves, hmc, mode, op, cr, uo, clock) ==
    IF ~hmc
    THEN IF ~is_valid(toks["user"], clock)
         THEN Outcome(toks, calls, FALSE, saves, FALSE, "no_credentials", "no_credentials")
         ELSE Outcome(toks, calls, FALSE, saves, TRUE, toks["user"].access_token,
                      "injected_user")
    ELSE With(select_flow(mode, op), LAMBDA flow :
         With(run_flow(flow, toks, hmc, cr, uo, clock), LAMBDA f :
         With(get_best_token(f.tokens, op, clock), LAMBDA token :
             IF f.raised
             THEN Outcome(f.tokens, calls \o f.calls, f.listener, saves + f.saves, FALSE,
                          flow \o "_flow_failed", flow \o "_flow")
             ELSE IF token = << >> \/ ~is_valid(token[1], clock)
             THEN Outcome(f.tokens, calls \o f.calls, f.listener, saves + f.saves, FALSE,
                          "authentication_failed", flow \o "_flow")
             ELSE Outcome(f.tokens, calls \o f.calls, f.listener, saves + f.saves, TRUE,
                          token[1].access_token, flow \o "_flow"))))

\* mutant: the cached token is not looked at
authenticate_skips_cache(toks, hmc, mode, op, rr, cr, uo, clock) ==
    authenticate_flow(toks, << >>, 0, hmc, mode, op, cr, uo, clock)

\* lines 119-129: the refresh attempt; a raise inside it is swallowed
try_refresh(toks, hmc, rr, clock) ==
    IF Truthy(toks["user"].refresh_token) /\ ~is_valid(toks["user"], clock)
    THEN refresh_user_token(toks, hmc, rr, clock)
    ELSE Step(toks, << >>, FALSE, 0, TRUE)

\* mutant: a failure of the refresh is raised to the caller
authenticate_refresh_fatal(toks, hmc, mode, op, rr, cr, uo, clock) ==
    With(get_best_token(toks, op, clock), LAMBDA token :
        IF token # << >> /\ is_valid(token[1], clock)
        THEN Outcome(toks, << >>, FALSE, 0, TRUE, token[1].access_token, "cached")
        ELSE
        With(try_refresh(toks, hmc, rr, clock), LAMBDA r :
        With(IF r.raised THEN << >> ELSE get_best_token(r.tokens, op, clock), LAMBDA token1 :
            IF r.raised /\ r.calls # << >>
            THEN Outcome(r.tokens, r.calls, FALSE, r.saves, FALSE, "refresh_failed", "refresh")
            ELSE IF ~r.raised /\ token1 # << >> /\ is_valid(token1[1], clock)
            THEN Outcome(r.tokens, r.calls, FALSE, r.saves, TRUE, token1[1].access_token,
                         "refreshed")
            ELSE authenticate_flow(r.tokens, r.calls, r.saves, hmc, mode, op,
                                   cr, uo, clock))))

authenticate(toks, hmc, mode, op, rr, cr, uo, clock) ==
    With(get_best_token(toks, op, clock), LAMBDA token :
        IF token # << >> /\ is_valid(token[1], clock)
        THEN Outcome(toks, << >>, FALSE, 0, TRUE, token[1].access_token, "cached")
        ELSE
        With(try_refresh(toks, hmc, rr, clock), LAMBDA r :
        With(IF r.raised THEN << >> ELSE get_best_token(r.tokens, op, clock), LAMBDA token1 :
            IF ~r.raised /\ token1 # << >> /\ is_valid(token1[1], clock)
            THEN Outcome(r.tokens, r.calls, FALSE, r.saves, TRUE, token1[1].access_token,
                         "refreshed")
            ELSE authenticate_flow(r.tokens, r.calls, r.saves, hmc, mode, op,
                                   cr, uo, clock))))

---------------------------------------------------------------------------
(* auth/oauth.py: the three token-endpoint exchanges and what they raise.  *)
(* An exception is its class, the text str() gives, the HTTP response that *)
(* travels with it (<< >> when there is none) and its __context__ (<< >>   *)
(* or <<e>>).  The text is a record: the prefixes added by re-raising, the *)
(* text of the original, and the status code when the text names one.      *)

Statuses == {302, 401}

Bodies == {"", "invalid_grant"}

TransportErrors == {"ConnectError", "ReadTimeout"}

\* what `await client.post(...)` comes to: a 2xx response with its JSON
\* body, a response with another status, or a transport error raised
\* before any response arrives
Replied(resp) ==
    [outcome |-> "success", status |-> 200, body |-> "json", error |-> NONE, json |-> resp]

Rejected(status, body) ==
    [outcome |-> "rejected", status |-> status, body |-> body, error |-> NONE,
     json |-> Failure]

Unreachable(error) ==
    [outcome |-> "network", status |-> 0, body |-> "", error |-> error, json |-> Failure]

NoPost == Unreachable("ConnectError")

Exception(prefix, text, status, cls, response, context) ==
    [cls |-> cls, message |-> [prefix |-> prefix, text |-> text, status |-> status],
     response |-> response, context |-> context]

\* response.raise_for_status() on a status outside 2xx
HTTPStatusError(status, body) ==
    Exception(<< >>, "status error", <<status>>, "HTTPStatusError",
              <<[status_code |-> status, text |-> body]>>, << >>)

\* raised by client.post; a timeout has an empty text
TransportError(error) ==
    Exception(<< >>, IF error = "ReadTimeout" THEN "" ELSE "All connection attempts failed",
              << >>, error, << >>, << >>)

\* raise Exception(text) outside an except block
PlainException(text) == Exception(<< >>, text, << >>, "Exception", << >>, << >>)

\* except Exception as e: raise Exception(f"<prefix>: {e}")
reraise(prefix, e) ==
    Exception(<<prefix>> \o e.message.prefix, e.message.text, e.message.status,
              "Exception", << >>, <<e>>)

\* lines 95-98, 173-176, 193-196: post, raise_for_status, response.json();
\* nothing is caught, so what httpx raises leaves the exchange as it is
token_request(grant_type, o) ==
    IF o.outcome = "network"
    THEN [grant_type |-> grant_type, raised |-> <<TransportError(o.error)>>, json |-> Failure]
    ELSE IF o.status \div 100 # 2
    THEN [grant_type |-> grant_type, raised |-> <<HTTPStatusError(o.status, o.body)>>,
          json |-> Failure]
    ELSE [grant_type |-> grant_type, raised |-> << >>, json |-> o.json]

get_client_credentials_token(o) == token_request("client_credentials", o)

exchange_code_for_token(o) == token_request("authorization_code", o)

\* OAuth2Client.refresh_token
refresh_token_exchange(o) == token_request("refresh_token", o)

\* what get_user_authorization_token raises: lines 144, 147, or what the
\* code exchange raised
user_authorization_failure(uo) ==
    IF uo.listener = "error" THEN PlainException("Authorization failed: access_denied")
    ELSE IF uo.listener = "timeout" THEN PlainException("Authorization timed out")
    ELSE exchange_code_for_token(uo.post).raised[1]

\* the exception a failed authenticate call raises, a being the outcome of
\* the call, co and uo what its client-credentials exchange and its
\* interactive flow came to: lines 135 and 157, and the re-raises of lines
\* 179-181 and 202-204, which lines 143, 149 and 152 let through
authenticate_failure(a, co, uo) ==
    IF a.ok THEN << >>
    ELSE IF a.value = "no_credentials"
    THEN <<PlainException("No valid authentication available")>>
    ELSE IF a.value = "authentication_failed"
    THEN <<PlainException("Authentication failed - no valid token available")>>
    ELSE IF a.value = "client_flow_failed"
    THEN <<reraise("Client credentials authentication failed",
                   get_client_credentials_token(co).raised[1])>>
    ELSE <<reraise("User authorization authentication failed",
                   user_authorization_failure(uo))>>

---------------------------------------------------------------------------
(* auth/oauth.py: OAuth2Client.get_user_authorization_token, step by step. *)
(* oauth holds the position of the call, the callback listener it started  *)
(* (whether its serve_forever thread runs, whether its listening socket is *)
(* open on the redirect port), what the callback handler captured and the  *)
(* number of one-second sleeps of the wait loop.  The manager's actions    *)
(* run the flow in one step and record in last.listener whether the        *)
(* listener was started; the listener itself is followed here.             *)

timeout == 300

\* OAuth2Client.__init__: the redirect URI of the client
redirect_uri == "http://localhost:8090/callback"

\* values secrets.token_bytes(32) can give, base64url-encoded
Verifiers == {"verifier1", "verifier2"}

\* base64url(sha256(v)): one-way, so a value that is no verifier, and
\* different for different verifiers
S256 == [v \in Verifiers |-> IF v = "verifier1" THEN "challenge1" ELSE "challenge2"]

\* _generate_pkce_challenge, given the random verifier
generate_pkce_challenge(v) == [code_verifier |-> v, code_challenge |-> S256[v]]

\* lines 107-115: the parameters of the authorization URL
authorization_params(code_challenge, scope) ==
    [response_type |-> "code", client_id |-> "client_id", redirect_uri |-> redirect_uri,
     scope |-> scope, state |-> "state", code_challenge |-> code_challenge,
     code_challenge_method |-> "S256"]

\* mutant: the challenge is sent where the verifier belongs
exchange_data_sends_challenge(auth_code, code_verifier) ==
    [grant_type |-> "authorization_code", client_id |-> "client_id",
     client_secret |-> "client_secret", code |-> auth_code,
     redirect_uri |-> redirect_uri, code_verifier |-> S256[code_verifier]]

\* lines 160-167: the form _exchange_code_for_token posts
exchange_data(auth_code, code_verifier) ==
    [grant_type |-> "authorization_code", client_id |-> "client_id",
     client_secret |-> "client_secret", code |-> auth_code,
     redirect_uri |-> redirect_uri, code_verifier |-> code_verifier]

\* codes the authorization server can redirect with
Codes == {"code1", "code2"}

\* code_path is the path of the request the code was taken from and
\* code_state its state parameter, token_data is << >> or <<response>> of
\* the code exchange, and error_from tells whether the error was taken
\* from an error parameter ("parameter") or made up for a request that had
\* none ("none").
\* auth_url and posted are << >> until the URL is built and the form is
\* posted, then <<parameters>>; polls counts the sleeps of the wait loop
\* and checks its tests of the captured values; raised is << >> or what the
\* call raises; held tells that the listener's thread is inside a request
\* whose client has sent nothing yet
NoListener ==
    [pc |-> "idle", started |-> FALSE, serving |-> FALSE, bound |-> FALSE,
     auth_code |-> NONE, auth_error |-> NONE, polls |-> 0,
     code_verifier |-> NONE, auth_url |-> << >>, posted |-> << >>,
     checks |-> 0, raised |-> << >>, held |-> FALSE,
     code_path |-> NONE, error_from |-> NONE, code_state |-> NONE,
     token_data |-> << >>]

Frame == UNCHANGED <<now, tokens, file, capabilities, has_machine_credentials,
                     auth_mode, last, callers>>

\* lines 103-130: the verifier is drawn and the authorization URL built;
\* HTTPServer(...) binds the redirect port and the thread starts serving;
\* the constructor raises when the port is still taken
StartListener ==
    /\ oauth.pc \in {"idle", "returned", "raised", "stored"}
    /\ \E v \in Verifiers :
       \E pkce \in {generate_pkce_challenge(v)} :
       \E url \in {authorization_params(pkce.code_challenge, DefaultScopes)} :
          oauth' = IF oauth.bound
                   THEN [oauth EXCEPT !.pc = "raised", !.started = FALSE,
                                      !.code_verifier = pkce.code_verifier,
                                      !.auth_url = <<url>>, !.posted = << >>,
                                      !.raised = <<"OSError">>, !.token_data = << >>]
                   ELSE [NoListener EXCEPT !.pc = "polling", !.started = TRUE,
                                           !.serving = TRUE, !.bound = TRUE,
                                           !.code_verifier = pkce.code_verifier,
                                           !.auth_url = <<url>>]
    /\ Frame

\* a GET request: its path and the code, error and state parameters of its
\* query
Request(path, code, error, state) ==
    [path |-> path, code |-> code, error |-> error, state |-> state]

\* the redirects of the authorization server
RedirectRequests ==
    {Request("/callback", c, ABSENT, "state") : c \in Codes}
    \cup {Request("/callback", ABSENT, "access_denied", "state")}

\* other requests that reach the port: the browser asking for an icon, a
\* request for the route without parameters, a code sent to another path
StrayRequests ==
    {Request("/favicon.ico", ABSENT, ABSENT, ABSENT),
     Request("/callback", ABSENT, ABSENT, ABSENT),
     Request("/other", "code2", ABSENT, "state")}

\* requests on the route with a code: with the state of the authorization
\* URL, with another one and with none
ForgedRequests ==
    {Request("/callback", "code1", ABSENT, st) : st \in {"state", "forged", ABSENT}}

\* OAuth2CallbackHandler.do_GET: the path is parsed for its query only; a
\* request with a code stores it, any other request stores its error
\* parameter or 'Unknown error'
do_GET(o, req) ==
    IF req.code # ABSENT
    THEN [o EXCEPT !.auth_code = req.code, !.code_path = req.path,
                   !.code_state = req.state]
    ELSE [o EXCEPT !.auth_error = IF req.error # ABSENT THEN req.error ELSE "Unknown error",
                   !.error_from = IF req.error # ABSENT THEN "parameter" ELSE "none"]

\* the listener's thread handles one request out of requests; the server
\* handles one request at a time
HandleRequest(requests) ==
    /\ oauth.serving
    /\ ~oauth.held
    /\ \E req \in requests : oauth' = do_GET(oauth, req)
    /\ oauth' # oauth
    /\ Frame

\* the redirect arrives
Callback == HandleRequest(RedirectRequests)

\* lines 138-141: one iteration of the wait loop, the test of line 139
\* and the one-second sleep of line 141; range(timeout) ends the loop
\* after timeout sleeps
Poll ==
    /\ oauth.pc = "polling"
    /\ oauth' = IF oauth.polls = timeout THEN [oauth EXCEPT !.pc = "check"]
                ELSE IF Truthy(oauth.auth_code) \/ Truthy(oauth.auth_error)
                THEN [oauth EXCEPT !.pc = "check", !.checks = @ + 1]
                ELSE [oauth EXCEPT !.polls = @ + 1, !.checks = @ + 1]
    /\ Frame

\* mutant: a code that did not come with the state of the authorization
\* URL is refused
after_wait_checks_state(o) ==
    IF Truthy(o.auth_error)
    THEN [o EXCEPT !.pc = "raising", !.raised = <<"Authorization failed", o.auth_error>>]
    ELSE IF ~Truthy(o.auth_code)
    THEN [o EXCEPT !.pc = "raising", !.raised = <<"Authorization timed out">>]
    ELSE IF o.code_state # "state"
    THEN [o EXCEPT !.pc = "raising", !.raised = <<"Authorization failed", "state">>]
    ELSE [o EXCEPT !.pc = "exchanging"]

\* lines 143-147: what follows the wait loop
after_wait(o) ==
    IF Truthy(o.auth_error)
    THEN [o EXCEPT !.pc = "raising", !.raised = <<"Authorization failed", o.auth_error>>]
    ELSE IF ~Truthy(o.auth_code)
    THEN [o EXCEPT !.pc = "raising", !.raised = <<"Authorization timed out">>]
    ELSE [o EXCEPT !.pc = "exchanging"]

\* lines 143-147
CheckCallback ==
    /\ oauth.pc = "check"
    /\ oauth' = after_wait(oauth)
    /\ Frame

\* line 150: _exchange_code_for_token posts the form and returns the
\* response or raises
ExchangeCode ==
    /\ oauth.pc = "exchanging"
    /\ \E resp \in {Failure, Response("ua1", MaxExpiresIn, "rt1", ABSENT)} :
          oauth' = [oauth EXCEPT !.pc = IF resp.ok THEN "returning" ELSE "raising",
                                 !.posted = <<exchange_data(oauth.auth_code,
                                                            oauth.code_verifier)>>,
                                 !.raised = IF resp.ok THEN << >>
                                            ELSE <<"HTTPStatusError">>,
                                 !.token_data = IF resp.ok THEN <<resp>> ELSE << >>]
    /\ Frame

\* the listener's thread accepts a connection whose client sends nothing:
\* the handler has no timeout and waits for the request line
Connect ==
    /\ oauth.serving
    /\ ~oauth.held
    /\ oauth' = [oauth EXCEPT !.held = TRUE]
    /\ Frame

\* the client closes that connection and the thread is back in serve_forever
Disconnect ==
    /\ oauth.held
    /\ oauth' = [oauth EXCEPT !.held = FALSE]
    /\ Frame

\* lines 152-154: server.shutdown() ends serve_forever and the thread is
\* joined; nothing closes the listening socket.  shutdown() waits, without
\* yielding, until serve_forever has left its loop, which it does between
\* requests.  On return the server object is unreachable and its socket is
\* closed when the interpreter reclaims it, at once or later; on a raise
\* the traceback keeps it
Shutdown ==
    /\ oauth.pc \in {"returning", "raising"}
    /\ ~oauth.held
    /\ \/ oauth' = [oauth EXCEPT !.pc = IF oauth.pc = "returning" THEN "returned" ELSE "raised",
                                  !.serving = FALSE]
       \/ /\ oauth.pc = "returning"
          /\ oauth' = [oauth EXCEPT !.pc = "returned", !.serving = FALSE, !.bound = FALSE]
    /\ Frame

\* the server object is reclaimed after the call: its socket is closed
Reclaim ==
    /\ oauth.pc \in {"returned", "raised", "stored"}
    /\ oauth.bound
    /\ oauth' = [oauth EXCEPT !.bound = FALSE]
    /\ Frame

---------------------------------------------------------------------------
(* State.  `last` describes the call that produced the current state: what *)
(* was called, with which arguments, what it returned or raised, which     *)
(* token-endpoint exchanges it performed and the response its refresh      *)
(* exchange got, whether it started the callback listener and how often it *)
(* called save_tokens; further the time of the call, whether its writes    *)
(* succeeded, the response its authorization-code exchange got and the     *)
(* optional arguments it was given.                                        *)

Called(kind, op, slot, expires_in, ok, value, path, calls, refresh, listener, saves) ==
    [kind |-> kind, op |-> op, slot |-> slot, expires_in |-> expires_in,
     ok |-> ok, value |-> value, path |-> path, calls |-> calls,
     refresh |-> refresh, listener |-> listener, saves |-> saves,
     at |-> now, write_ok |-> TRUE, exchange |-> Failure, args |-> << >>]

Plain(kind, slot, expires_in, saves) ==
    Called(kind, OpNone, slot, expires_in, TRUE, NONE, "", << >>, Failure, FALSE, saves)

\* token files found at the first start when there is one: edited by
\* hand, with a client record that is populated but flagged invalid or
\* flagged valid without an access token, and a user record flagged valid
\* that has no expiry
ExternalFiles ==
    {[exists |-> TRUE, origin |-> "external", readable |-> TRUE, order |-> SlotOrder,
      data |-> [s \in Slots |->
                 IF s = "client" THEN dump_token(c)
                 ELSE dump_token(TokenInfo("fu1", "frt", NoTime, NONE, TRUE))]] :
        c \in {TokenInfo("fc1", NONE, <<MaxNow>>, NONE, FALSE),
               TokenInfo(NONE, NONE, <<MaxNow>>, NONE, TRUE)}}

\* an expires_at string that datetime.fromisoformat rejects
BadTimestamp == <<0, 0, 0>>

\* token files that load_tokens cannot read to the end: content that is
\* not JSON, and files in which the user entry has an unparsable expires_at
\* next to a well-formed client entry, written after it or before it
DamagedFiles ==
    {[exists |-> TRUE, origin |-> "external", readable |-> FALSE, order |-> << >>,
      data |-> << >>]}
    \cup
    {[exists |-> TRUE, origin |-> "external", readable |-> TRUE, order |-> o,
      data |-> [s \in Slots |->
                 IF s = "client"
                 THEN dump_token(TokenInfo("fc2", NONE, <<MaxNow>>, NONE, TRUE))
                 ELSE [dump_token(TokenInfo("fu2", NONE, NoTime, NONE, TRUE))
                          EXCEPT !.expires_at = BadTimestamp]]] :
        o \in {<<"client", "user">>, <<"user", "client">>}}

\* the calls of the manager that are under way on the event loop, by task
Tasks == {1, 2}

\* one call: where it is suspended (pc), the exchange or flow it awaits
\* and the refresh token it handed over, the data its save_tokens prepared
\* (<< >> or <<store>>), what it does after the save, the exchanges and
\* flows it has triggered, whether its first look at the store found no
\* usable token, and how it ended
Call(pc, kind, op, exchange, arg, snapshot, after, flows, observed, ok, result) ==
    [pc |-> pc, kind |-> kind, op |-> op, exchange |-> exchange, arg |-> arg,
     snapshot |-> snapshot, after |-> after, flows |-> flows, observed |-> observed,
     ok |-> ok, result |-> result]

Idle == Call("idle", "", OpNone, "", NONE, << >>, "", << >>, FALSE, TRUE, "")

NoCallers == [p \in Tasks |-> Idle]

Init ==
    /\ now = 0
    /\ tokens = EmptyStore
    /\ file \in {NoFile} \cup ExternalFiles \cup DamagedFiles
    /\ capabilities = NoCapabilities
    /\ has_machine_credentials \in BOOLEAN
    /\ auth_mode \in AuthModes
    /\ last = Plain("init", "", 0, 0)
    /\ oauth = NoListener
    /\ callers = NoCallers

written(f, toks, saves) == IF saves > 0 THEN save_tokens(toks) ELSE f

\* outcomes of a write of the token file: the storage location may be
\* unwritable until the file has been written once
WriteResults(f) == IF f.exists THEN {TRUE} ELSE BOOLEAN

AlwaysWritten == {TRUE}

\* time passes between calls
Tick ==
    /\ \E t \in (now + 1)..MaxNow : now' = t
    /\ last' = [Plain("tick", "", 0, 0) EXCEPT !.at = now']
    /\ UNCHANGED <<tokens, file, capabilities, has_machine_credentials, auth_mode, oauth, callers>>

\* the responses one authenticate call can consume: a refresh response
\* when it attempts the refresh exchange, and the response of the flow it
\* selects; a response that is never read is fixed to Failure
will_refresh(toks, hmc, op, clock) ==
    /\ get_best_token(toks, op, clock) = << >>
    /\ hmc
    /\ Truthy(toks["user"].refresh_token)
    /\ ~is_valid(toks["user"], clock)

RefreshInputs(toks, hmc, op, clock) ==
    IF will_refresh(toks, hmc, op, clock) THEN RefreshResponses ELSE {Failure}

ClientInputs(hmc, mode, op) ==
    IF hmc /\ select_flow(mode, op) = "client" THEN ClientCredentialsResponses
    ELSE {Failure}

UserInputs(hmc, mode, op) ==
    IF hmc /\ select_flow(mode, op) = "user" THEN UserAuthorizationOutcomes
    ELSE {[listener |-> "timeout", exchange |-> Failure]}

\* oauth.py lines 182-187: the form the refresh exchange posts
refresh_data(refresh_token) ==
    [grant_type |-> "refresh_token", client_id |-> "client_id",
     client_secret |-> "client_secret", refresh_token |-> refresh_token]

\* mutant: the client record's refresh token is handed to the exchange
refresh_argument_client(toks) == toks["client"].refresh_token

\* lines 211-217: the refresh token _refresh_user_token hands to the exchange
refresh_argument(toks) == toks["user"].refresh_token

\* the forms of the exchanges `calls` of one authenticate call that started
\* from the store toks; only the refresh form is spelled out
posted_forms(toks, calls) ==
    [i \in DOMAIN calls |->
        IF calls[i] = "refresh_token" THEN refresh_data(refresh_argument(toks))
        ELSE [grant_type |-> calls[i]]]

\* the answer to the flow exchange of an authenticate call
flow_response(calls, cr, uo) ==
    IF \E i \in DOMAIN calls : calls[i] = "client_credentials" THEN cr
    ELSE IF \E i \in DOMAIN calls : calls[i] = "authorization_code" THEN uo.exchange
    ELSE Failure

\* AuthenticationManager.authenticate(operation); args keeps the forms the
\* call posted, exchange the answer its flow got
Authenticate ==
    \E op \in Ops :
    \E rr \in RefreshInputs(tokens, has_machine_credentials, op, now),
       cr \in ClientInputs(has_machine_credentials, auth_mode, op),
       uo \in UserInputs(has_machine_credentials, auth_mode, op) :
    \E a \in {authenticate(tokens, has_machine_credentials, auth_mode, op, rr, cr, uo, now)} :
            /\ tokens' = a.tokens
            /\ file' = written(file, a.tokens, a.saves)
            /\ capabilities' = update_capabilities(a.tokens, now)
            /\ last' = [Called("authenticate", op, "", 0, a.ok, a.value, a.path, a.calls,
                               rr, a.listener, a.saves)
                            EXCEPT !.args = posted_forms(tokens, a.calls),
                                   !.exchange = flow_response(a.calls, cr, uo)]
            /\ UNCHANGED <<now, has_machine_credentials, auth_mode, oauth, callers>>

\* mutant: a usable user token is kept and no flow is run
reauthorize_user_if_needed(toks, hmc, uo, clock) ==
    IF is_valid(toks["user"], clock) THEN Step(toks, << >>, FALSE, 0, FALSE)
    ELSE With(authenticate_user_authorization(clear_token(toks, "user"), hmc, uo, clock),
              LAMBDA f : [f EXCEPT !.saves = @ + 1])

\* mutant: the user record is put back when the flow fails
reauthorize_user_restores(toks, hmc, uo, clock) ==
    With(authenticate_user_authorization(clear_token(toks, "user"), hmc, uo, clock),
         LAMBDA f : IF f.raised THEN [f EXCEPT !.tokens = toks, !.saves = @ + 2]
                    ELSE [f EXCEPT !.saves = @ + 1])

\* lines 319-320: clear_token("user"), which saves, then the flow
reauthorize_user(toks, hmc, uo, clock) ==
    With(authenticate_user_authorization(clear_token(toks, "user"), hmc, uo, clock),
         LAMBDA f : [f EXCEPT !.saves = @ + 1])

\* AuthenticationManager.reauthorize_user; args keeps the user record the
\* call found
ReauthorizeUser ==
    \E uo \in (IF has_machine_credentials THEN UserAuthorizationOutcomes
                ELSE {[listener |-> "timeout", exchange |-> Failure]}) :
    \E r \in {reauthorize_user(tokens, has_machine_credentials, uo, now)} :
        /\ tokens' = r.tokens
        /\ file' = written(file, r.tokens, r.saves)
        /\ last' = [Called("reauthorize_user", OpNone, "user", 0, ~r.raised,
                           IF r.raised THEN "user_flow_failed" ELSE NONE, "user_flow",
                           r.calls, Failure, r.listener, r.saves)
                        EXCEPT !.exchange = uo.exchange,
                               !.args = [user_before |-> tokens["user"]]]
        /\ UNCHANGED <<now, capabilities, has_machine_credentials, auth_mode, oauth, callers>>

DefaultExpiresIn == 3600

\* arguments an injection is called with
InjectExpiresIns == ExpiresIns \cup {DefaultExpiresIn}

InjectOptions ==
    {[refresh_token |-> NONE, scope |-> NONE],
     [refresh_token |-> "irt", scope |-> "monitoring"]}

\* inject_client_token / inject_user_token: scope or the configured scope
inject_token(toks, slot, access_token, refresh_token, expires_in, scope, clock) ==
    set_token(toks, slot, access_token, expires_in, refresh_token,
              IF Truthy(scope) THEN scope ELSE DefaultScopes, clock)

\* AuthenticationManager.inject_client_token
InjectClientToken(expires_ins, options, writes) ==
    \E e \in expires_ins, o \in options, w \in writes :
        /\ tokens' = inject_token(tokens, "client", "ic1", o.refresh_token, e, o.scope, now)
        /\ file' \in persist(file, tokens', w)
        /\ last' = [Plain("inject_client_token", "client", e, 1)
                        EXCEPT !.write_ok = w, !.args = o]
        /\ UNCHANGED <<now, capabilities, has_machine_credentials, auth_mode, oauth, callers>>

\* AuthenticationManager.inject_user_token
InjectUserToken(expires_ins, options, writes) ==
    \E e \in expires_ins, o \in options, w \in writes :
        /\ tokens' = inject_token(tokens, "user", "iu1", o.refresh_token, e, o.scope, now)
        /\ file' \in persist(file, tokens', w)
        /\ last' = [Plain("inject_user_token", "user", e, 1)
                        EXCEPT !.write_ok = w, !.args = o]
        /\ UNCHANGED <<now, capabilities, has_machine_credentials, auth_mode, oauth, callers>>

\* tokens_data of inject_tokens_from_dict: a dict with an entry for the
\* client slot, the user slot or both.  An entry always has access_token;
\* a key it lacks is ABSENT, and expires_in is <<n>> or << >> when missing
DictEntry(access_token, refresh_token, expires_in, scope) ==
    [access_token |-> access_token, refresh_token |-> refresh_token,
     expires_in |-> expires_in, scope |-> scope]

TokensData ==
    {[s \in {"client"} |-> DictEntry("dc1", ABSENT, << >>, ABSENT)],
     [s \in {"user"} |-> DictEntry("du1", "drt", <<MaxExpiresIn>>, "monitoring")],
     [s \in Slots |-> IF s = "client" THEN DictEntry("dc1", "drt", << >>, "monitoring")
                      ELSE DictEntry("du1", ABSENT, << >>, ABSENT)]}

inject_entry(toks, slot, d, clock) ==
    inject_token(toks, slot, d.access_token, get(d, "refresh_token"),
                 IF d.expires_in = << >> THEN DefaultExpiresIn ELSE d.expires_in[1],
                 get(d, "scope"), clock)

inject_tokens_from_dict(toks, tokens_data, clock) ==
    With(IF "client" \in DOMAIN tokens_data
         THEN inject_entry(toks, "client", tokens_data["client"], clock)
         ELSE toks,
         LAMBDA c :
            IF "user" \in DOMAIN tokens_data
            THEN inject_entry(c, "user", tokens_data["user"], clock)
            ELSE c)

\* AuthenticationManager.inject_tokens_from_dict
InjectTokensFromDict(writes) ==
    \E tokens_data \in TokensData, w \in writes :
        /\ tokens' = inject_tokens_from_dict(tokens, tokens_data, now)
        /\ file' \in persist(file, tokens', w)
        /\ last' = [Plain("inject_tokens_from_dict", "", 0, Cardinality(DOMAIN tokens_data))
                        EXCEPT !.write_ok = w, !.args = tokens_data]
        /\ UNCHANGED <<now, capabilities, has_machine_credentials, auth_mode, oauth, callers>>

\* AuthenticationManager.clear_tokens(token_type)
ClearTokens(writes) ==
    \E token_type \in Slots \cup {"all"}, w \in writes :
        /\ tokens' = IF token_type = "all" THEN clear_all_tokens(tokens)
                     ELSE clear_token(tokens, token_type)
        /\ file' \in persist(file, tokens', w)
        /\ capabilities' = update_capabilities(tokens', now)
        /\ last' = [Plain("clear_tokens", token_type, 0, 1) EXCEPT !.write_ok = w]
        /\ UNCHANGED <<now, has_machine_credentials, auth_mode, oauth, callers>>

\* AuthenticationManager.clear_tokens(token_type) with token_type drawn
\* from token_types: lines 324-327 hand every name but "all" to clear_token
ClearTokenType(token_types) ==
    \E token_type \in token_types :
        /\ tokens' = IF token_type = "all" THEN clear_all_tokens(tokens)
                     ELSE clear_token(tokens, token_type)
        /\ file' = save_tokens(tokens')
        /\ capabilities' = update_capabilities(tokens', now)
        /\ last' = Plain("clear_tokens", token_type, 0, 1)
        /\ UNCHANGED <<now, has_machine_credentials, auth_mode, oauth, callers>>

\* TokenManager.set_token(token_type, ...) called on the store itself
SetToken(token_types) ==
    \E token_type \in token_types :
        /\ tokens' = set_token(tokens, token_type, "dc1", MaxExpiresIn, NONE, NONE, now)
        /\ file' = save_tokens(tokens')
        /\ last' = Plain("set_token", token_type, MaxExpiresIn, 1)
        /\ UNCHANGED <<now, capabilities, has_machine_credentials, auth_mode, oauth, callers>>

\* manager.py lines 190-199: _authenticate_user_authorization stores what
\* get_user_authorization_token returned
StoreUserToken ==
    /\ oauth.pc = "returned"
    /\ oauth.token_data # << >>
    /\ \E td \in {oauth.token_data[1]} :
          /\ tokens' = set_token(tokens, "user", td.access_token, td.expires_in,
                                 get(td, "refresh_token"), get(td, "scope"), now)
          /\ last' = Plain("authenticate_user_authorization", "user", td.expires_in, 1)
    /\ file' = save_tokens(tokens')
    /\ oauth' = [oauth EXCEPT !.pc = "stored"]
    /\ UNCHANGED <<now, capabilities, has_machine_credentials, auth_mode, callers>>

\* AuthenticationManager.get_auth_status
GetAuthStatus ==
    /\ capabilities' = update_capabilities(tokens, now)
    /\ last' = Plain("get_auth_status", "", 0, 0)
    /\ UNCHANGED <<now, tokens, file, has_machine_credentials, auth_mode, oauth, callers>>

\* environment at start-up: NINJARMM_{CLIENT,USER}_ACCESS_TOKEN with the
\* matching _REFRESH_TOKEN and _EXPIRES_IN.  NONE is a variable that is not
\* set; an _EXPIRES_IN that is set is <<n>>, n being what int() makes of it
\* (unset, the default applies; NINJARMM_CLIENT_EXPIRES_IN may be "0")
Environments ==
    {[client |-> c, client_refresh |-> NONE, client_expires_in |-> e,
      user |-> u, user_refresh |-> "ert", user_expires_in |-> << >>] :
        c \in {NONE, "ec1"}, e \in {<< >>, <<0>>}, u \in {NONE, "eu1"}}
    \ {[client |-> NONE, client_refresh |-> NONE, client_expires_in |-> <<0>>,
         user |-> u, user_refresh |-> "ert", user_expires_in |-> << >>] :
          u \in {NONE, "eu1"}}

\* int(os.getenv(..)) if set else 3600
env_expires_in(e) == IF e # << >> THEN e[1] ELSE DefaultExpiresIn

check_injected_tokens(toks, env, clock) ==
    With(IF Truthy(env.client)
         THEN inject_token(toks, "client", env.client, env.client_refresh,
                           env_expires_in(env.client_expires_in), DefaultScopes, clock)
         ELSE toks,
         LAMBDA c :
            IF Truthy(env.user)
            THEN inject_token(c, "user", env.user, env.user_refresh,
                              env_expires_in(env.user_expires_in), DefaultScopes, clock)
            ELSE c)

\* AuthenticationManager.initialize: load, fold in the environment, update
\* mutant: the environment is folded in before the file is loaded
initialize_env_first(toks, f, env, clock) ==
    load_tokens(check_injected_tokens(toks, env, clock), f)

\* lines 52-55: load_tokens, then _check_injected_tokens
initialize(toks, f, env, clock) ==
    check_injected_tokens(load_tokens(toks, f), env, clock)

injections(env) ==
    (IF Truthy(env.client) THEN 1 ELSE 0) + (IF Truthy(env.user) THEN 1 ELSE 0)

Initialize(writes) ==
    \E env \in Environments, w \in writes :
        /\ injections(env) = 0 => w
        /\ tokens' = initialize(tokens, file, env, now)
        /\ file' \in (IF injections(env) > 0 THEN persist(file, tokens', w) ELSE {file})
        /\ capabilities' = update_capabilities(tokens', now)
        /\ last' = [Plain("initialize", "", 0, injections(env))
                        EXCEPT !.write_ok = w, !.args = env]
            /\ UNCHANGED <<now, has_machine_credentials, auth_mode, oauth, callers>>

\* the process ends and a new AuthenticationManager is constructed on the
\* same storage path with the same configuration
Restart ==
    /\ tokens' = EmptyStore
    /\ capabilities' = NoCapabilities
    /\ file' = IF file.origin = "saved" THEN [file EXCEPT !.origin = "earlier"] ELSE file
    /\ last' = Plain("restart", "", 0, 0)
    /\ UNCHANGED <<now, has_machine_credentials, auth_mode, oauth, callers>>

\* what the token endpoint can answer to each exchange
Rejections == {Rejected(st, b) : st \in Statuses, b \in Bodies}

NetworkFailures == {Unreachable(e) : e \in TransportErrors}

ClientPosts ==
    {Replied(Response("cc1", MaxExpiresIn, ABSENT, "monitoring"))}
    \cup Rejections \cup NetworkFailures

CodePosts ==
    {Replied(Response("ua1", MaxExpiresIn, "rt1", ABSENT))}
    \cup Rejections \cup NetworkFailures

RefreshPosts ==
    {Replied(Response("rf1", MaxExpiresIn, ABSENT, ABSENT))}
    \cup Rejections \cup NetworkFailures

\* what the interactive flow can come to
UserFlows ==
    {[listener |-> "error", post |-> NoPost], [listener |-> "timeout", post |-> NoPost]}
    \cup {[listener |-> "code", post |-> o] : o \in CodePosts}

\* a direct call of one exchange of the OAuth2 client; args keeps what the
\* endpoint answered and what the call raised
Exchange(r, o) ==
    /\ last' = [Plain("exchange", "", 0, 0)
                    EXCEPT !.ok = (r.raised = << >>), !.calls = <<r.grant_type>>,
                           !.args = [post |-> o, failure |-> r.raised]]
    /\ UNCHANGED <<now, tokens, file, capabilities, has_machine_credentials, auth_mode,
                   oauth, callers>>

\* the manager has an OAuth2 client only with machine credentials
\* (manager.py lines 38-41)
GetClientCredentialsToken ==
    \E o \in ClientPosts :
        /\ has_machine_credentials
        /\ Exchange(get_client_credentials_token(o), o)

ExchangeCodeForToken ==
    \E o \in CodePosts :
        /\ has_machine_credentials
        /\ Exchange(exchange_code_for_token(o), o)

RefreshToken ==
    \E o \in RefreshPosts :
        /\ has_machine_credentials
        /\ Exchange(refresh_token_exchange(o), o)

\* AuthenticationManager.authenticate(operation) with the answers of the
\* token endpoint spelled out; args keeps the answers given to the refresh,
\* to the client-credentials exchange and to the interactive flow, and the
\* exception the call raised
AuthenticateOverHttp ==
    \E op \in {get_devices, create_ticket} :
    \E ro \in (IF will_refresh(tokens, has_machine_credentials, op, now)
                THEN RefreshPosts ELSE {NoPost}),
       co \in (IF /\ has_machine_credentials /\ select_flow(auth_mode, op) = "client"
                   /\ get_best_token(tokens, op, now) = << >>
                THEN ClientPosts ELSE {NoPost}),
       uo \in (IF /\ has_machine_credentials /\ select_flow(auth_mode, op) = "user"
                   /\ get_best_token(tokens, op, now) = << >>
                THEN UserFlows ELSE {[listener |-> "timeout", post |-> NoPost]}) :
    \E a \in {authenticate(tokens, has_machine_credentials, auth_mode, op,
                            refresh_token_exchange(ro).json,
                            get_client_credentials_token(co).json,
                            [listener |-> uo.listener,
                             exchange |-> exchange_code_for_token(uo.post).json],
                            now)} :
        /\ tokens' = a.tokens
        /\ file' = written(file, a.tokens, a.saves)
        /\ capabilities' = update_capabilities(a.tokens, now)
        /\ last' = [Called("authenticate", op, "", 0, a.ok, a.value, a.path, a.calls,
                           refresh_token_exchange(ro).json, a.listener, a.saves)
                        EXCEPT !.args = [refresh |-> ro, client |-> co, user |-> uo,
                                         failure |-> authenticate_failure(a, co, uo)]]
        /\ UNCHANGED <<now, has_machine_credentials, auth_mode, oauth, callers>>

---------------------------------------------------------------------------
(* Calls that overlap on one event loop.  A coroutine runs until it awaits *)
(* something that suspends it: a token-endpoint exchange, the interactive  *)
(* flow, or the thread-pool operations of aiofiles inside save_tokens      *)
(* (open, and the write that reaches the file when it is closed).  What    *)
(* lies between two such awaits is one step.  _update_auth_status awaits   *)
(* nothing that suspends.                                                  *)

\* a call that has returned or raised keeps what it triggered and how it
\* ended
Ended(c, ok, result) ==
    Call("done", c.kind, OpNone, "", NONE, << >>, "", c.flows, c.observed,
         ok, result)

Awaiting(c, exchange) ==
    [c EXCEPT !.pc = "exchange", !.exchange = exchange, !.flows = @ \o <<exchange>>]

\* manager.py lines 131-152: the flow is chosen and awaited; in the
\* interactive flow HTTPServer(...) raises when the redirect port is taken
start_flow(c, toks, hmc, mode, clock, bound) ==
    IF ~hmc
    THEN IF ~is_valid(toks["user"], clock) THEN Ended(c, FALSE, "no_credentials")
         ELSE Ended(c, TRUE, toks["user"].access_token)
    ELSE IF select_flow(mode, c.op) = "client" THEN Awaiting(c, "client_credentials")
    ELSE IF bound
    THEN Ended([c EXCEPT !.flows = @ \o <<"user_authorization">>], FALSE, "user_flow_failed")
    ELSE Awaiting(c, "user_authorization")

\* mutant: a call finding the same exchange already awaited by another call
\* waits for that one instead of starting its own
begin_authenticate_deduplicated(c, others, toks, hmc, mode, clock, bound) ==
    With(get_best_token(toks, c.op, clock), LAMBDA token :
        IF token # << >> /\ is_valid(token[1], clock)
        THEN Ended(c, TRUE, token[1].access_token)
        ELSE IF \E o \in others : o.pc = "exchange"
        THEN Ended([c EXCEPT !.observed = TRUE], FALSE, "joined")
        ELSE IF Truthy(toks["user"].refresh_token) /\ ~is_valid(toks["user"], clock) /\ hmc
        THEN Awaiting([c EXCEPT !.observed = TRUE, !.arg = refresh_argument(toks)],
                      "refresh_token")
        ELSE start_flow([c EXCEPT !.observed = TRUE], toks, hmc, mode, clock, bound))

\* manager.py lines 112-152 up to the first await that suspends: the fast
\* path, the refresh attempt (the refresh token is read at line 211, before
\* the exchange is awaited), or the flow.  No state of another call is
\* consulted
begin_authenticate(c, others, toks, hmc, mode, clock, bound) ==
    With(get_best_token(toks, c.op, clock), LAMBDA token :
        IF token # << >> /\ is_valid(token[1], clock)
        THEN Ended(c, TRUE, token[1].access_token)
        ELSE IF Truthy(toks["user"].refresh_token) /\ ~is_valid(toks["user"], clock) /\ hmc
        THEN Awaiting([c EXCEPT !.observed = TRUE, !.arg = refresh_argument(toks)],
                      "refresh_token")
        ELSE start_flow([c EXCEPT !.observed = TRUE], toks, hmc, mode, clock, bound))

\* the listener of a call that entered the interactive flow, and what is
\* left of it when the flow is over (lines 152-154)
Listening == [NoListener EXCEPT !.pc = "polling", !.started = TRUE, !.serving = TRUE,
                                !.bound = TRUE]

AfterFlow(o, ok) ==
    IF ok THEN {[o EXCEPT !.pc = "returned", !.serving = FALSE, !.bound = b] : b \in BOOLEAN}
    ELSE {[o EXCEPT !.pc = "raised", !.serving = FALSE]}

\* the listener after a step that took the call from c to d
listener_after(c, d) ==
    IF d.pc = "exchange" /\ d.exchange = "user_authorization"
       /\ c.exchange # "user_authorization"
    THEN {Listening}
    ELSE IF c.pc = "exchange" /\ c.exchange = "user_authorization"
    THEN AfterFlow(oauth, d.pc = "open")
    ELSE {oauth}

ConcurrentOps == {get_devices, create_ticket}

Others(p) == {callers[q] : q \in Tasks \ {p}}

\* a task calls authenticate(op)
CallAuthenticate(p) ==
    /\ callers[p].pc \in {"idle", "done"}
    /\ \E op \in ConcurrentOps :
       \E d \in {begin_authenticate([Idle EXCEPT !.kind = "authenticate", !.op = op],
                                    Others(p), tokens, has_machine_credentials,
                                    auth_mode, now, oauth.bound)} :
          /\ callers' = [callers EXCEPT ![p] = d]
          /\ oauth' \in listener_after(callers[p], d)
    /\ capabilities' = update_capabilities(tokens, now)
    /\ last' = Plain("task", "", 0, 0)
    /\ UNCHANGED <<now, tokens, file, has_machine_credentials, auth_mode>>

\* tokens.py lines 76-96 up to the await inside save_tokens: the record is
\* replaced in memory and the data to write is prepared from the store as
\* it is now
Saving(c, toks, after) ==
    [c EXCEPT !.pc = "open", !.exchange = "", !.snapshot = <<toks>>, !.after = after]

\* the answers the token endpoint and the interactive flow give to
\* overlapping calls
ConcurrentRefreshResponses == {Failure, Response("rf1", MaxExpiresIn, "rt2", ABSENT)}

ConcurrentClientResponses == {Failure, Response("cc1", MaxExpiresIn, ABSENT, "monitoring")}

ConcurrentUserOutcomes ==
    {[listener |-> "error", exchange |-> Failure],
     [listener |-> "code", exchange |-> Response("ua1", MaxExpiresIn, "rt1", ABSENT)]}

\* the store and the call once the awaited exchange has answered:
\* manager.py lines 217-226, 169-175, 190-199; a failed refresh is swallowed
\* (lines 128-129) and the flow follows
respond(c, toks, hmc, mode, clock, bound, rr, cr, uo) ==
    IF c.exchange = "refresh_token"
    THEN IF ~rr.ok
         THEN [tokens |-> toks, call |-> start_flow(c, toks, hmc, mode, clock, bound)]
         ELSE With(set_token(toks, "user", rr.access_token, rr.expires_in,
                             get_default(rr, "refresh_token", c.arg),
                             get(rr, "scope"), clock), LAMBDA t :
                  [tokens |-> t, call |-> Saving(c, t, "refresh_check")])
    ELSE IF c.exchange = "client_credentials"
    THEN IF ~cr.ok
         THEN [tokens |-> toks, call |-> Ended(c, FALSE, "client_flow_failed")]
         ELSE With(set_token(toks, "client", cr.access_token, cr.expires_in,
                             NONE, get(cr, "scope"), clock), LAMBDA t :
                  [tokens |-> t, call |-> Saving(c, t, "flow_check")])
    ELSE IF uo.listener # "code" \/ ~uo.exchange.ok
         THEN [tokens |-> toks, call |-> Ended(c, FALSE, "user_flow_failed")]
         ELSE With(set_token(toks, "user", uo.exchange.access_token,
                             uo.exchange.expires_in,
                             get(uo.exchange, "refresh_token"),
                             get(uo.exchange, "scope"), clock), LAMBDA t :
                  [tokens |-> t, call |-> Saving(c, t, "flow_check")])

\* the exchange or flow a call awaits is over and the call goes on to its
\* next await
Respond(p) ==
    /\ callers[p].pc = "exchange"
    /\ \E rr \in (IF callers[p].exchange = "refresh_token"
                  THEN ConcurrentRefreshResponses ELSE {Failure}),
          cr \in (IF callers[p].exchange = "client_credentials"
                  THEN ConcurrentClientResponses ELSE {Failure}),
          uo \in (IF callers[p].exchange = "user_authorization"
                  THEN ConcurrentUserOutcomes
                  ELSE {[listener |-> "error", exchange |-> Failure]}) :
       \E r \in {respond(callers[p], tokens, has_machine_credentials, auth_mode, now,
                         oauth.bound, rr, cr, uo)} :
          /\ tokens' = r.tokens
          /\ callers' = [callers EXCEPT ![p] = r.call]
          /\ oauth' \in listener_after(callers[p], r.call)
    /\ last' = Plain("task", "", 0, 0)
    /\ UNCHANGED <<now, file, capabilities, has_machine_credentials, auth_mode>>

\* a task calls clear_tokens("all"): manager.py lines 322-329
CallClearTokens(p) ==
    /\ callers[p].pc \in {"idle", "done"}
    /\ tokens' = clear_all_tokens(tokens)
    /\ callers' = [callers EXCEPT ![p] =
                      Saving([Idle EXCEPT !.kind = "clear_tokens"], tokens', "return")]
    /\ last' = Plain("task", "", 0, 0)
    /\ UNCHANGED <<now, file, capabilities, has_machine_credentials, auth_mode, oauth>>

\* tokens.py line 64, first half: open(path, 'w') in the thread pool leaves
\* an empty file
OpenFile(p) ==
    /\ callers[p].pc = "open"
    /\ file' = cut_short(file)
    /\ callers' = [callers EXCEPT ![p].pc = "flush"]
    /\ last' = Plain("task", "", 0, 0)
    /\ UNCHANGED <<now, tokens, capabilities, has_machine_credentials, auth_mode, oauth>>

\* the length of the JSON text of a store, counted in populated fields: a
\* populated field is longer than null, and values of one field are taken
\* to be of one length
json_size(data) ==
    Cardinality({<<s, k>> \in Slots \X {"access_token", "refresh_token", "scope"} :
                    data[s][k] # NONE})
    + Cardinality({s \in Slots : data[s].expires_at # NoTime})

\* a file whose content is the start of one JSON text followed by the end
\* of another
Mixed == [exists |-> TRUE, origin |-> "mixed", readable |-> FALSE, order |-> << >>,
          data |-> << >>]

\* what a file holds after data is written at its start through a handle
\* of its own: the data, or, when another handle has written longer data
\* since this one was opened, the data followed by the rest of the other
overwritten(f, toks) ==
    IF f.origin = "cut" THEN {save_tokens(toks)}
    ELSE IF ~f.readable THEN {save_tokens(toks), Mixed}
    ELSE IF json_size(f.data) > json_size(save_tokens(toks).data) THEN {Mixed}
    ELSE {save_tokens(toks)}

\* tokens.py lines 64-65: the prepared data reaches the file when the
\* handle is written and closed
FlushFile(p) ==
    /\ callers[p].pc = "flush"
    /\ file' \in overwritten(file, callers[p].snapshot[1])
    /\ callers' = [callers EXCEPT ![p].pc = "finish"]
    /\ last' = Plain("task", "", 0, 0)
    /\ UNCHANGED <<now, tokens, capabilities, has_machine_credentials, auth_mode, oauth>>

\* what follows the save: manager.py lines 124-127 after a refresh, lines
\* 154-159 after a flow, line 329 of a clear
finish(c, toks, hmc, mode, clock, bound) ==
    With(get_best_token(toks, c.op, clock), LAMBDA token :
        IF c.after = "return" THEN Ended(c, TRUE, "")
        ELSE IF token # << >> /\ is_valid(token[1], clock)
        THEN Ended(c, TRUE, token[1].access_token)
        ELSE IF c.after = "refresh_check"
        THEN start_flow(c, toks, hmc, mode, clock, bound)
        ELSE Ended(c, FALSE, "authentication_failed"))

Finish(p) ==
    /\ callers[p].pc = "finish"
    /\ \E d \in {finish(callers[p], tokens, has_machine_credentials, auth_mode, now,
                        oauth.bound)} :
          /\ callers' = [callers EXCEPT ![p] = d]
          /\ oauth' \in listener_after(callers[p], d)
    /\ capabilities' = update_capabilities(tokens, now)
    /\ last' = Plain("task", "", 0, 0)
    /\ UNCHANGED <<now, tokens, file, has_machine_credentials, auth_mode>>

\* no call is under way
Quiet == \A p \in Tasks : callers[p].pc \in {"idle", "done"}

\* the manager in use: tokens arrive by flows, refresh and injection of
\* short-lived tokens
Next ==
    \/ Tick
    \/ Authenticate
    \/ InjectClientToken({MaxExpiresIn}, {[refresh_token |-> NONE, scope |-> NONE]},
                         AlwaysWritten)
    \/ InjectUserToken({MaxExpiresIn}, InjectOptions, AlwaysWritten)
    \/ ClearTokens(AlwaysWritten)

InitManager == Init /\ file = NoFile

Spec == InitManager /\ [][Next]_vars

\* the store and its persistence across restarts, under one configuration
NextStore ==
    \/ Tick
    \/ InjectClientToken(InjectExpiresIns, InjectOptions, WriteResults(file))
    \/ InjectUserToken(InjectExpiresIns, InjectOptions, WriteResults(file))
    \/ InjectTokensFromDict(WriteResults(file))
    \/ ClearTokens(WriteResults(file))
    \/ GetAuthStatus
    \/ Initialize(WriteResults(file))
    \/ Restart

InitStore == Init /\ has_machine_credentials = TRUE /\ auth_mode = "hybrid"

SpecStore == InitStore /\ [][NextStore]_vars

\* forced re-authorization of the user, with and without machine
\* credentials, on stores filled by injection
NextReauthorize ==
    \/ Tick
    \/ InjectClientToken({MaxExpiresIn}, {[refresh_token |-> NONE, scope |-> NONE]},
                         AlwaysWritten)
    \/ InjectUserToken(ExpiresIns, InjectOptions, AlwaysWritten)
    \/ ReauthorizeUser
    \/ GetAuthStatus

InitReauthorize == InitManager /\ auth_mode = "hybrid"

SpecReauthorize == InitReauthorize /\ [][NextReauthorize]_vars

\* a long-lived client token set early and watched while seconds pass, up
\* to MaxElapsed seconds
LongExpiresIns == {1000}

Elapse ==
    \E d \in {1, 10, 100} :
        /\ now + d * TicksPerSecond <= MaxNow + MaxElapsed * TicksPerSecond
        /\ now' = now + d * TicksPerSecond
        /\ UNCHANGED <<tokens, file, capabilities, has_machine_credentials, auth_mode,
                       last, oauth, callers>>

NextLongLived ==
    \/ Tick
    \/ now <= MaxNow /\ InjectClientToken(LongExpiresIns,
                                           {[refresh_token |-> NONE, scope |-> NONE]},
                                           AlwaysWritten)
    \/ Elapse

InitLongLived == InitStore /\ file = NoFile

SpecLongLived == InitLongLived /\ [][NextLongLived]_vars

\* the interactive flow of the OAuth2 client, call after call
NextOAuth ==
    \/ StartListener
    \/ Callback
    \/ Poll
    \/ CheckCallback
    \/ ExchangeCode
    \/ Shutdown
    \/ Reclaim

InitOAuth == InitStore /\ file = NoFile

SpecOAuth == InitOAuth /\ [][NextOAuth]_vars

\* one code, and stray requests beside the redirects
OneCode == {Request("/callback", "code1", ABSENT, "state")}

NextCallback ==
    \/ StartListener
    \/ HandleRequest(OneCode \cup StrayRequests)
    \/ Poll
    \/ CheckCallback
    \/ ExchangeCode
    \/ Shutdown
    \/ Reclaim

InitCallback == InitStore /\ file = NoFile

SpecCallback == InitCallback /\ [][NextCallback]_vars

\* codes that reach the route with any state, and the manager storing what
\* the flow returns
NextForged ==
    \/ StartListener
    \/ HandleRequest(ForgedRequests)
    \/ Poll
    \/ CheckCallback
    \/ ExchangeCode
    \/ Shutdown
    \/ Reclaim
    \/ StoreUserToken

InitForged == InitStore /\ file = NoFile

SpecForged == InitForged /\ [][NextForged]_vars

\* the same calls beside clients that connect to the redirect port and
\* send nothing.  The event loop resumes the call after every sleep and
\* every response, and shutdown() returns once the listener's thread is
\* between requests
NextOAuthHeld ==
    \/ StartListener
    \/ Callback
    \/ Poll
    \/ CheckCallback
    \/ ExchangeCode
    \/ Shutdown
    \/ Reclaim
    \/ Connect
    \/ Disconnect

InitOAuthHeld == InitStore /\ file = NoFile

SpecOAuthHeld ==
    /\ InitOAuthHeld
    /\ [][NextOAuthHeld]_vars
    /\ WF_vars(Poll)
    /\ WF_vars(CheckCallback)
    /\ WF_vars(ExchangeCode)
    /\ SF_vars(Shutdown)

\* authenticate on stores in which either record can hold a refresh
\* token, with machine credentials
NextRefresh ==
    \/ Tick
    \/ InjectClientToken({MaxExpiresIn}, InjectOptions, AlwaysWritten)
    \/ InjectUserToken(ExpiresIns, InjectOptions, AlwaysWritten)
    \/ Authenticate

InitRefresh == InitManager /\ has_machine_credentials

SpecRefresh == InitRefresh /\ [][NextRefresh]_vars

\* an injection-only manager whose writes of the token file can fail at
\* any time
NextPersist ==
    \/ Tick
    \/ InjectClientToken({MaxExpiresIn}, {[refresh_token |-> NONE, scope |-> NONE]},
                         BOOLEAN)
    \/ InjectUserToken({MaxExpiresIn}, InjectOptions, BOOLEAN)
    \/ ClearTokens(BOOLEAN)
    \/ Authenticate

InitPersist == InitManager /\ ~has_machine_credentials /\ auth_mode = "hybrid"

SpecPersist == InitPersist /\ [][NextPersist]_vars

\* a lifetime that set_token cuts to nothing: the token is expired at once
ShortExpiresIns == {1}

\* the exchanges called directly and through authenticate, against a token
\* endpoint that answers, rejects or cannot be reached
NextExchange ==
    \/ Tick
    \/ InjectUserToken(ShortExpiresIns, InjectOptions, AlwaysWritten)
    \/ GetClientCredentialsToken
    \/ ExchangeCodeForToken
    \/ RefreshToken
    \/ AuthenticateOverHttp

InitExchange == InitManager /\ has_machine_credentials /\ auth_mode = "hybrid"

SpecExchange == InitExchange /\ [][NextExchange]_vars

\* the store called with slot names of every kind, across restarts
NextSlots ==
    \/ Tick
    \/ SetToken({"client", "user", OtherSlot})
    \/ ClearTokenType({"client", "user", "all", OtherSlot})
    \/ Initialize(AlwaysWritten)
    \/ Restart

InitSlots == InitStore /\ file = NoFile

SpecSlots == InitSlots /\ [][NextSlots]_vars

\* two tasks on one event loop, with machine credentials: calls that
\* overlap, within one tick of the clock, on a store into which a user
\* token with a refresh token and a lifetime that is over at once is
\* injected while no call is under way
NextConcurrent ==
    \/ \E p \in Tasks : CallAuthenticate(p)
    \/ \E p \in Tasks : Respond(p)
    \/ \E p \in Tasks : CallClearTokens(p)
    \/ \E p \in Tasks : OpenFile(p)
    \/ \E p \in Tasks : FlushFile(p)
    \/ \E p \in Tasks : Finish(p)
    \/ Reclaim
    \/ (Quiet /\ InjectUserToken(ShortExpiresIns, {[refresh_token |-> "irt", scope |-> NONE]},
                                 AlwaysWritten))

InitConcurrent == InitManager /\ has_machine_credentials /\ auth_mode = "hybrid"

SpecConcurrent == InitConcurrent /\ [][NextConcurrent]_vars

---------------------------------------------------------------------------
(* Claims *)

Times == 0..(MaxNow + 1)

present(x) == x \notin {NONE, ""}

\* C1: a token record is usable (is_valid) at a time exactly when its valid
\* flag is set, it has an access token and it has an expiry that lies
\* strictly after that time; so a record flagged invalid, without access
\* token or without expiry is usable at no time.
C1_UsableIff ==
    \A s \in Slots : \A t \in Times :
        is_valid(tokens[s], t) <=>
            /\ tokens[s].valid = TRUE
            /\ present(tokens[s].access_token)
            /\ tokens[s].expires_at # NoTime
            /\ t < tokens[s].expires_at[1]

\* a populated, unexpired client record flagged invalid next to a user
\* record flagged valid that has no expiry, both loaded from the file
C1_Witness ==
    /\ last.kind = "initialize"
    /\ tokens["client"].valid = FALSE
    /\ present(tokens["client"].access_token)
    /\ tokens["client"].expires_at # NoTime
    /\ now < tokens["client"].expires_at[1]
    /\ tokens["user"].valid = TRUE
    /\ present(tokens["user"].access_token)
    /\ tokens["user"].expires_at = NoTime

SetKinds == {"inject_client_token", "inject_user_token"}

\* C2: for every expires_in e, the record that set_token(slot, token, e)
\* leaves is usable when the set returns and its expiry lies exactly 0.9*e
\* seconds after the time of the set.
C2_WindowIsNinetyPercent ==
    last.kind \in SetKinds =>
        /\ is_valid(tokens[last.slot], now)
        /\ 10 * (tokens[last.slot].expires_at[1] - now) = 9 * last.expires_in * TicksPerSecond


\* C8: whenever the file holds what save_tokens wrote from the store now in
\* memory, load_tokens in a fresh TokenManager yields for every slot the
\* same access_token, refresh_token, expires_at and scope, and the same
\* usability decision at the current and at every later time.
C8_RoundTrip ==
    file.origin = "saved" =>
        \A s \in Slots :
            LET loaded == load_tokens(EmptyStore, file)[s]
            IN  /\ loaded.access_token = tokens[s].access_token
                /\ loaded.refresh_token = tokens[s].refresh_token
                /\ loaded.expires_at = tokens[s].expires_at
                /\ loaded.scope = tokens[s].scope
                /\ \A t \in now..(MaxNow + 1) :
                       is_valid(loaded, t) <=> is_valid(tokens[s], t)

\* a saved store with a cleared slot and a usable slot whose expiry has a
\* fractional second and which carries a refresh token and a scope
C8_Witness ==
    /\ file.origin = "saved"
    /\ tokens["client"] = EmptyToken
    /\ is_valid(tokens["user"], now)
    /\ tokens["user"].expires_at[1] % TicksPerSecond # 0
    /\ present(tokens["user"].refresh_token)
    /\ present(tokens["user"].scope)
    /\ load_tokens(EmptyStore, file) = tokens

TicketNames == {create_ticket, List_Tickets, TICKET}

OtherNames == {OpNone, << >>, get_devices, tick_et}

usable(s) == is_valid(tokens[s], now)

\* C9: the selector depends only on the operation name and on which slots
\* are usable: for a name containing "ticket" in any letter case it returns
\* the user record when usable and nothing otherwise; for every other name,
\* the empty name and no name it returns the client record when usable,
\* else the user record when usable, else nothing.
C9_Selector ==
    /\ \A op \in TicketNames :
          get_best_token(tokens, op, now) =
              IF usable("user") THEN <<tokens["user"]>> ELSE << >>
    /\ \A op \in OtherNames :
          get_best_token(tokens, op, now) =
              IF usable("client") THEN <<tokens["client"]>>
              ELSE IF usable("user") THEN <<tokens["user"]>>
              ELSE << >>

\* both slots usable: ticket names get the user record, the others the
\* client record
C9_Witness ==
    /\ usable("client") /\ usable("user")
    /\ tokens["client"] # tokens["user"]
    /\ get_best_token(tokens, List_Tickets, now) = <<tokens["user"]>>
    /\ get_best_token(tokens, get_devices, now) = <<tokens["client"]>>


\* what the selector finds for the operation of the call being made, in
\* the store the call starts from
found(op) == get_best_token(tokens, op, now)

Exchanged(l) == {l.calls[i] : i \in DOMAIN l.calls}

\* C3: when authenticate(op) is called and the selector finds a usable
\* token for op, the call returns that token's access_token, performs no
\* token-endpoint exchange, starts no listener and neither changes the store
\* nor writes the file.
C3_FastPath ==
    [][(last'.kind = "authenticate" /\ found(last'.op) # << >>) =>
          /\ last'.ok
          /\ last'.value = found(last'.op)[1].access_token
          /\ last'.calls = << >>
          /\ ~last'.listener
          /\ last'.saves = 0
          /\ tokens' = tokens
          /\ file' = file]_vars

\* authenticate("get_devices") answered from the cache with the client
\* token an earlier client-credentials exchange stored
C3_Witness ==
    /\ last.kind = "authenticate"
    /\ last.op = get_devices
    /\ last.path = "cached"
    /\ last.calls = << >>
    /\ usable("client")
    /\ tokens["client"].access_token = "cc1"
    /\ last.value = "cc1"

TicketCall(l) ==
    l.kind = "authenticate" /\ l.op \in TicketNames
    /\ usable("client") /\ ~usable("user")

\* C4 as claimed: authenticate(op) for a ticket operation, called when the
\* client slot is usable and the user slot is not, fails.
C4_TicketCallFails ==
    [][TicketCall(last') => ~last'.ok]_vars

\* C4 amended: such a call never returns the client token; it returns a
\* token only with machine credentials and only the access_token of the
\* user slot that a refresh or a user-authorization exchange of this call
\* made usable; in injection-only mode it always fails with the
\* no-credentials error, and otherwise a failing call fails with
\* authentication-failed or with the failure of the flow it ran.
C4_TicketCallNeverUsesClient ==
    [][TicketCall(last') =>
          /\ last'.value # tokens["client"].access_token
          /\ last'.value # tokens'["client"].access_token
          /\ last'.ok =>
                /\ has_machine_credentials
                /\ Exchanged(last') \cap {"refresh_token", "authorization_code"} # {}
                /\ is_valid(tokens'["user"], now)
                /\ last'.value = tokens'["user"].access_token
          /\ ~has_machine_credentials => ~last'.ok /\ last'.value = "no_credentials"
          /\ (has_machine_credentials /\ ~last'.ok) =>
                last'.value \in {"authentication_failed", "client_flow_failed",
                                 "user_flow_failed"}]_vars

\* a ticket call that failed after a successful client-credentials exchange
\* although the client slot was and is usable
C4_Witness ==
    /\ last.kind = "authenticate"
    /\ last.op = create_ticket
    /\ ~last.ok
    /\ last.value = "authentication_failed"
    /\ last.calls = <<"client_credentials">>
    /\ usable("client")
    /\ ~usable("user")

\* C5: authenticate(op) for an operation without "ticket" in its name,
\* called when the user slot is usable and the client slot is not, returns
\* the user slot's access_token from the cache: no exchange, no listener, no
\* change of the store; in every auth mode, with or without machine
\* credentials.
C5_UserFallback ==
    [][(/\ last'.kind = "authenticate"
        /\ last'.op \in OtherNames
        /\ usable("user") /\ ~usable("client")) =>
          /\ last'.ok
          /\ last'.value = tokens["user"].access_token
          /\ last'.path = "cached"
          /\ last'.calls = << >>
          /\ ~last'.listener
          /\ tokens' = tokens]_vars

\* get_devices answered with the injected user token while the client slot
\* holds an expired token
C5_Witness ==
    /\ last.kind = "authenticate"
    /\ last.op = get_devices
    /\ last.ok
    /\ last.value = tokens["user"].access_token
    /\ usable("user")
    /\ present(tokens["client"].access_token)
    /\ ~usable("client")


InjectionOnlyCall(l) == l.kind = "authenticate" /\ ~has_machine_credentials

\* C6 as claimed: in injection-only mode no authenticate call performs a
\* token-endpoint exchange or starts the listener, and a call made while
\* the user slot is not usable fails with the no-credentials error.
C6_FailsWheneverUserUnusable ==
    [][InjectionOnlyCall(last') =>
          /\ last'.calls = << >>
          /\ ~last'.listener
          /\ ~usable("user") => (~last'.ok /\ last'.value = "no_credentials")]_vars

\* C6 amended: in injection-only mode no authenticate call performs a
\* token-endpoint exchange or starts the listener; a call for which the
\* selector finds no usable token (the user slot is not usable and, for an
\* operation without "ticket", neither is the client slot) fails with the
\* no-credentials error and leaves the store as it was.
C6_InjectionOnlyNoNetwork ==
    [][InjectionOnlyCall(last') =>
          /\ last'.calls = << >>
          /\ ~last'.listener
          /\ found(last'.op) = << >> =>
                /\ ~last'.ok
                /\ last'.value = "no_credentials"
                /\ tokens' = tokens
                /\ file' = file]_vars

\* an injection-only call that failed with the no-credentials error while
\* the user slot held an expired token and a refresh token
C6_Witness ==
    /\ ~has_machine_credentials
    /\ last.kind = "authenticate"
    /\ ~last.ok
    /\ last.value = "no_credentials"
    /\ last.calls = << >>
    /\ present(tokens["user"].access_token)
    /\ present(tokens["user"].refresh_token)
    /\ ~usable("user")

\* the refresh exchange of the call succeeded and no user-authorization
\* exchange of the same call wrote the user slot after it
Refreshed(l) ==
    /\ l.kind = "authenticate"
    /\ "refresh_token" \in Exchanged(l)
    /\ l.refresh.ok
    /\ "authorization_code" \notin Exchanged(l)

\* C7: after a successful refresh the user slot holds the response's
\* refresh token if the response has one and the refresh token stored
\* before the refresh if it has none; the access token is the response's
\* and the expiry is the one the set contract derives from the response's
\* expires_in.
C7_RefreshRotation ==
    [][Refreshed(last') =>
          /\ tokens'["user"].refresh_token =
                IF last'.refresh.refresh_token # ABSENT
                THEN last'.refresh.refresh_token
                ELSE tokens["user"].refresh_token
          /\ tokens'["user"].access_token = last'.refresh.access_token
          /\ tokens'["user"].expires_at =
                <<now + ((9 * last'.refresh.expires_in) \div 10) * TicksPerSecond>>
          /\ tokens'["user"].valid]_vars

\* a refresh whose response had no refresh_token: the injected refresh
\* token is still stored next to the new access token
C7_Witness ==
    /\ last.kind = "authenticate"
    /\ last.calls = <<"refresh_token">>
    /\ last.refresh.ok
    /\ last.refresh.refresh_token = ABSENT
    /\ tokens["user"].access_token = "rf1"
    /\ tokens["user"].refresh_token = "irt"

FlowRan(l) == l.kind = "authenticate" /\ l.path \in {"client_flow", "user_flow"}

\* C10 as claimed: whenever authenticate runs a flow, in any auth mode, it
\* is the user-authorization flow for a ticket operation and the
\* client-credentials flow for any other.
C10_FlowByTicketRule ==
    [][FlowRan(last') =>
          last'.path = IF last'.op \in TicketNames THEN "user_flow" ELSE "client_flow"]_vars

\* C10 amended: with machine credentials, a call for which the selector
\* finds nothing and a refresh produced nothing runs one flow, chosen by the
\* auth mode first: client-credentials in mode client and user-authorization
\* in mode user whatever the operation, and only in mode hybrid by the
\* ticket rule (client-credentials also when no operation is given).  A
\* failure of the flow is raised; otherwise the store is persisted and the
\* call returns the token the selector then finds for the operation, or
\* fails with authentication-failed when it finds none.
ModeFlow(mode, op) ==
    CASE mode = "client" -> "client_flow"
      [] mode = "user" -> "user_flow"
      [] OTHER -> IF op \in TicketNames THEN "user_flow" ELSE "client_flow"

C10_FlowByModeThenTicketRule ==
    [][last'.kind = "authenticate" =>
          /\ (has_machine_credentials /\ found(last'.op) = << >>
              /\ last'.path # "refreshed") => FlowRan(last')
          /\ FlowRan(last') =>
                /\ has_machine_credentials
                /\ last'.path = ModeFlow(auth_mode, last'.op)
                /\ last'.ok =>
                      /\ get_best_token(tokens', last'.op, now) # << >>
                      /\ last'.value = get_best_token(tokens', last'.op, now)[1].access_token
                      /\ file' = save_tokens(tokens')
                /\ ~last'.ok =>
                      \/ /\ last'.value = "authentication_failed"
                         /\ get_best_token(tokens', last'.op, now) = << >>
                         /\ file' = save_tokens(tokens')
                      \/ /\ last'.value \in {"client_flow_failed", "user_flow_failed"}]_vars

\* mode client, a ticket operation: the client-credentials flow ran and
\* stored a client token, and the call failed with authentication-failed
C10_Witness ==
    /\ auth_mode = "client"
    /\ last.kind = "authenticate"
    /\ last.op = create_ticket
    /\ last.path = "client_flow"
    /\ last.calls = <<"client_credentials">>
    /\ last.value = "authentication_failed"
    /\ tokens["client"].access_token = "cc1"
    /\ file = save_tokens(tokens)

\* the refresh exchange of the call was made and failed
RefreshFailed(l) ==
    /\ l.kind = "authenticate"
    /\ l.calls # << >>
    /\ l.calls[1] = "refresh_token"
    /\ ~l.refresh.ok

FlowFailures == {"client_flow_failed", "user_flow_failed"}

\* C11 as claimed: when the refresh exchange of an authenticate call fails,
\* the call goes on to a flow, and it succeeds whenever that flow succeeds.
C11_SucceedsIfFlowSucceeds ==
    [][RefreshFailed(last') =>
          /\ FlowRan(last')
          /\ last'.saves = 1 => last'.ok]_vars

\* C11 amended: when the refresh exchange of an authenticate call fails,
\* the failure is not raised: the store is left as it was, the call goes on
\* to the flow chosen by auth mode and ticket rule, and a failing call fails
\* with that flow's failure or with authentication-failed.  When the flow
\* succeeds the call returns the token the flow stored, provided that token
\* is usable and the selector admits it for the operation; it fails with
\* authentication-failed when the stored token is not usable, and in mode
\* client for a ticket operation, where the selector never admits the
\* client token.
FlowSlot(l) == IF l.path = "client_flow" THEN "client" ELSE "user"

C11_RefreshFailureFallsThrough ==
    [][RefreshFailed(last') =>
          /\ FlowRan(last')
          /\ last'.path = ModeFlow(auth_mode, last'.op)
          /\ Len(last'.calls) >= 2 \/ last'.listener
          /\ ~last'.ok => last'.value \in FlowFailures \cup {"authentication_failed"}
          /\ last'.value \in FlowFailures => tokens' = tokens
          /\ last'.saves = 1 =>
                /\ last'.value \notin FlowFailures
                /\ last'.ok <=>
                      /\ is_valid(tokens'[FlowSlot(last')], now)
                      /\ ~(auth_mode = "client" /\ last'.op \in TicketNames)
                /\ last'.ok => last'.value = tokens'[FlowSlot(last')].access_token]_vars

\* a ticket call whose refresh exchange failed and which returned the token
\* of the user-authorization flow it ran next
C11_Witness ==
    /\ RefreshFailed(last)
    /\ last.op = create_ticket
    /\ last.calls = <<"refresh_token", "authorization_code">>
    /\ last.ok
    /\ last.value = "ua1"
    /\ tokens["user"].access_token = "ua1"

\* the calls that end in set_token, clear_token or clear_all_tokens
Mutating(l) ==
    \/ l.kind \in {"inject_client_token", "inject_user_token", "clear_tokens",
                   "inject_tokens_from_dict"}
    \/ l.kind = "initialize" /\ l.saves > 0

\* the file holds an entry for each slot and each entry is the record in
\* memory, its expiry in ISO form
InSync ==
    /\ file.exists /\ file.readable
    /\ {file.order[i] : i \in DOMAIN file.order} = Slots
    /\ DOMAIN file.data = Slots
    /\ \A s \in Slots :
          /\ file.data[s] = dump_token(tokens[s])
          /\ parse_token(file.data[s]) = tokens[s]

\* C13: when a call that sets or clears a slot has returned and its write
\* did not fail, the file holds both slots and equals the store in memory;
\* and from then on, until the process ends, memory and file do not differ
\* in any state between two calls.
C13_MutationsPersisted ==
    /\ (Mutating(last) /\ last.write_ok) => file.origin = "saved"
    /\ file.origin = "saved" => InSync

\* the user slot was cleared while the client slot held an injected token:
\* the file holds the empty user record next to the client record
C13_Witness ==
    /\ last.kind = "clear_tokens" /\ last.slot = "user" /\ last.write_ok
    /\ tokens["user"] = EmptyToken
    /\ tokens["client"].access_token = "ic1"
    /\ file.data["client"].access_token = "ic1"
    /\ file.data["user"] = dump_token(EmptyToken)
    /\ InSync

\* initialize in a fresh manager with no token in the environment: what the
\* store holds afterwards is what load_tokens made of the file
FreshLoad(l) == l.kind = "initialize" /\ l.saves = 0 /\ tokens = EmptyStore

\* C14: load_tokens in a fresh manager leaves both slots empty and unusable
\* when the file is missing, is not readable as JSON or has an entry that
\* is malformed.
C14_DamagedFileLoadsNothing ==
    [][(FreshLoad(last') /\ file \in {NoFile} \cup DamagedFiles) =>
          /\ tokens' = EmptyStore
          /\ \A s \in Slots : ~is_valid(tokens'[s], now)]_vars

\* an injection call and what it was given for slot s: access token,
\* refresh token, expires_in (3600 when not given) and scope
Injects(l, s) ==
    \/ l.kind = "inject_client_token" /\ s = "client"
    \/ l.kind = "inject_user_token" /\ s = "user"
    \/ l.kind = "inject_tokens_from_dict" /\ s \in DOMAIN l.args

GivenAccess(l, s) ==
    IF l.kind = "inject_tokens_from_dict" THEN l.args[s].access_token
    ELSE IF s = "client" THEN "ic1" ELSE "iu1"

GivenRefresh(l, s) ==
    IF l.kind # "inject_tokens_from_dict" THEN l.args.refresh_token
    ELSE IF l.args[s].refresh_token = ABSENT THEN NONE ELSE l.args[s].refresh_token

GivenScope(l, s) ==
    IF l.kind # "inject_tokens_from_dict" THEN l.args.scope
    ELSE IF l.args[s].scope = ABSENT THEN NONE ELSE l.args[s].scope

GivenExpiresIn(l, s) ==
    IF l.kind # "inject_tokens_from_dict" THEN l.expires_in
    ELSE IF l.args[s].expires_in = << >> THEN 3600 ELSE l.args[s].expires_in[1]

\* everything C15 says of an injected slot but its expiry
InjectedAsGiven(l, s) ==
    /\ l.calls = << >> /\ ~l.listener
    /\ tokens[s].valid
    /\ tokens[s].access_token = GivenAccess(l, s)
    /\ tokens[s].refresh_token = GivenRefresh(l, s)
    /\ tokens[s].scope = IF present(GivenScope(l, s)) THEN GivenScope(l, s)
                         ELSE "monitoring management control"
    /\ tokens[s].expires_at # NoTime
    /\ l.write_ok => InSync

\* C15: after an injection the named slot is valid, holds the given access
\* and refresh token and the given scope or else the configured one, no
\* exchange was made, the store is persisted, and the slot expires exactly
\* 0.9*expires_in seconds after the call, expires_in being 3600 when not
\* given.
C15_InjectionExpiresAtNinetyPercent ==
    \A s \in Slots :
        Injects(last, s) =>
            /\ InjectedAsGiven(last, s)
            /\ 10 * (tokens[s].expires_at[1] - last.at) =
                  9 * GivenExpiresIn(last, s) * TicksPerSecond

\* what holds of C15: the same, the expiry being the one set_token
\* computes, int(0.9*expires_in) whole seconds after the call
C15_InjectionUsesSetContract ==
    \A s \in Slots :
        Injects(last, s) =>
            /\ InjectedAsGiven(last, s)
            /\ tokens[s].expires_at[1] - last.at =
                  ((9 * GivenExpiresIn(last, s)) \div 10) * TicksPerSecond

\* what initialize found in the environment for slot s
EnvToken(env, s) == IF s = "client" THEN env.client ELSE env.user

EnvRefresh(env, s) == IF s = "client" THEN env.client_refresh ELSE env.user_refresh

EnvExpiresIn(env, s) ==
    IF s = "client"
    THEN IF env.client_expires_in = << >> THEN 3600 ELSE env.client_expires_in[1]
    ELSE IF env.user_expires_in = << >> THEN 3600 ELSE env.user_expires_in[1]

Reported(caps, s) ==
    IF s = "client" THEN caps.can_use_client_credentials ELSE caps.can_use_user_auth

\* C16 as claimed: after initialize() a slot with an access token in the
\* environment holds that token and is reported usable, and a slot without
\* one holds what load_tokens read from the file.
C16_EnvSlotReportedUsable ==
    [][last'.kind = "initialize" =>
          \A s \in Slots :
              IF present(EnvToken(last'.args, s))
              THEN /\ tokens'[s].access_token = EnvToken(last'.args, s)
                   /\ Reported(capabilities', s)
              ELSE tokens'[s] = load_tokens(tokens, file)[s]]_vars

\* C16 amended: after initialize() a slot with an access token in the
\* environment holds the record the set contract makes of the environment's
\* values (access token, refresh token, the configured scope, expiry
\* int(0.9*expires_in) seconds after start-up with expires_in 3600 when
\* unset), whatever the file held for it; a slot without one holds what
\* load_tokens read from the file.  The status is computed last: each slot
\* is reported usable exactly when its record is usable then, which an
\* environment token is when expires_in is unset and is not when it is 0.
C16_LoadThenEnvThenStatus ==
    [][last'.kind = "initialize" =>
          /\ \A s \in Slots :
              IF present(EnvToken(last'.args, s))
              THEN /\ tokens'[s].access_token = EnvToken(last'.args, s)
                   /\ tokens'[s].refresh_token = EnvRefresh(last'.args, s)
                   /\ tokens'[s].scope = "monitoring management control"
                   /\ tokens'[s].valid
                   /\ tokens'[s].expires_at =
                         <<now + ((9 * EnvExpiresIn(last'.args, s)) \div 10) * TicksPerSecond>>
                   /\ Reported(capabilities', s) <=> tokens'[s].expires_at[1] > now
                   /\ EnvExpiresIn(last'.args, s) = 3600 => Reported(capabilities', s)
              ELSE /\ tokens'[s] = load_tokens(tokens, file)[s]
                   /\ Reported(capabilities', s) <=> is_valid(tokens'[s], now)
          /\ capabilities'.supports_refresh <=> present(tokens'["user"].refresh_token)]_vars

\* start-up on a file with a client and a user record and only the client
\* token in the environment: the client slot holds the environment token
\* and is reported usable, the user slot holds the file's record
C16_Witness ==
    /\ last.kind = "initialize"
    /\ last.args.client = "ec1" /\ last.args.user = NONE
    /\ tokens["client"].access_token = "ec1"
    /\ capabilities.can_use_client_credentials
    /\ tokens["user"].access_token = "fu1"
    /\ tokens["user"].refresh_token = "frt"

ReportsNothing(caps) ==
    /\ caps.can_use_client_credentials = FALSE
    /\ caps.can_use_user_auth = FALSE
    /\ caps.supports_refresh = FALSE

BlankRecord(t) ==
    /\ t.access_token = NONE /\ t.refresh_token = NONE /\ t.expires_at = NoTime
    /\ t.scope = NONE /\ t.valid = FALSE

\* C18: clear_tokens("all") leaves both slots empty, whatever they held,
\* and the status it leaves reports no capability; as long as only time
\* passes and get_auth_status is called, the slots stay empty and the
\* status keeps reporting no capability.
C18_ClearAllReportsNothing ==
    [][/\ (last'.kind = "clear_tokens" /\ last'.slot = "all") =>
             /\ \A s \in Slots : BlankRecord(tokens'[s])
             /\ ReportsNothing(capabilities')
       /\ ((\A s \in Slots : BlankRecord(tokens[s])) /\ ReportsNothing(capabilities)
              /\ last'.kind \in {"tick", "get_auth_status"}) =>
             /\ \A s \in Slots : BlankRecord(tokens'[s])
             /\ ReportsNothing(capabilities')]_vars

\* clear_tokens("all") at a later time, on a store that had been written:
\* nothing stored, nothing reported
C18_Witness ==
    /\ last.kind = "clear_tokens" /\ last.slot = "all"
    /\ \A s \in Slots : BlankRecord(tokens[s])
    /\ ReportsNothing(capabilities)
    /\ file.origin = "saved"
    /\ now > 0

Other(s) == IF s = "client" THEN "user" ELSE "client"

\* C19: clear_tokens(slot) for one slot leaves that slot empty and invalid
\* and the other slot's record as it was; inject_client_token,
\* inject_user_token and inject_tokens_from_dict with one entry leave the
\* record of the slot they do not name as it was.
C19_OtherSlotUnchanged ==
    [][/\ (last'.kind = "clear_tokens" /\ last'.slot \in Slots) =>
             /\ BlankRecord(tokens'[last'.slot])
             /\ tokens'[Other(last'.slot)] = tokens[Other(last'.slot)]
       /\ last'.kind \in {"inject_client_token", "inject_user_token"} =>
             /\ tokens'[last'.slot].access_token \in {"ic1", "iu1"}
             /\ tokens'[Other(last'.slot)] = tokens[Other(last'.slot)]
       /\ last'.kind = "inject_tokens_from_dict" =>
             \A s \in Slots \ DOMAIN last'.args : tokens'[s] = tokens[s]]_vars

\* the client slot was cleared next to a usable user token, which is
\* still there
C19_Witness ==
    /\ last.kind = "clear_tokens" /\ last.slot = "client"
    /\ BlankRecord(tokens["client"])
    /\ usable("user")
    /\ tokens["user"].access_token = "iu1"
    /\ tokens["user"].refresh_token = "irt"

\* the last call set the client token with expires_in = 1000, at last.at
SetThousand == last.kind = "inject_client_token" /\ last.expires_in = 1000

\* C20: a client token set with expires_in = 1000 at T0 is usable at
\* T0 + 10 s and unusable at T0 + 901 s; it is usable exactly until
\* T0 + 900 s.
C20_WindowOfThousand ==
    SetThousand =>
        /\ now = last.at + 10 * TicksPerSecond => usable("client")
        /\ now = last.at + 901 * TicksPerSecond => ~usable("client")
        /\ usable("client") <=> now < last.at + 900 * TicksPerSecond

\* 901 seconds after the set, at a T0 that is not a whole second: the
\* token is still stored and no longer usable
C20_Witness ==
    /\ SetThousand
    /\ last.at % TicksPerSecond # 0
    /\ now = last.at + 901 * TicksPerSecond
    /\ tokens["client"].access_token = "ic1"
    /\ tokens["client"].valid
    /\ ~usable("client")

\* C12: when get_user_authorization_token has returned or raised, the
\* listener it started is neither serving nor holding the redirect port.
C12_ListenerTornDown ==
    (oauth.pc \in {"returned", "raised"} /\ oauth.started) =>
        (~oauth.serving /\ ~oauth.bound)

\* the part of C12 the code provides: no listener thread is left serving
C12_NotServingAfterCall ==
    oauth.pc \in {"idle", "returned", "raised"} => ~oauth.serving

\* C21: on every status query the three capabilities are recomputed from
\* the two current records: can_use_client_credentials is the usability of
\* the client slot, can_use_user_auth that of the user slot, and
\* supports_refresh holds exactly when the user record carries a refresh
\* token, whether or not the user record is usable and whatever refresh
\* token the client record holds.
C21_CapabilitiesRecomputed ==
    [][last'.kind = "get_auth_status" =>
          /\ tokens' = tokens
          /\ capabilities'.can_use_client_credentials = usable("client")
          /\ capabilities'.can_use_user_auth = usable("user")
          /\ capabilities'.supports_refresh = present(tokens["user"].refresh_token)]_vars

\* a status query that reports supports_refresh with can_use_user_auth
\* false: the user record is expired and carries a refresh token
C21_Witness ==
    /\ last.kind = "get_auth_status"
    /\ present(tokens["user"].access_token)
    /\ present(tokens["user"].refresh_token)
    /\ ~usable("user")
    /\ capabilities.supports_refresh
    /\ ~capabilities.can_use_user_auth

\* a status query on a store whose client record alone holds a refresh
\* token
C21_ClientRefreshOnly ==
    /\ last.kind = "get_auth_status"
    /\ present(tokens["client"].refresh_token)
    /\ ~present(tokens["user"].refresh_token)
    /\ ~capabilities.supports_refresh

\* C22 as claimed: in injection-only mode the client slot is empty after
\* any sequence of manager operations, and authenticate never returns the
\* client slot's token.
C22_ClientSlotStaysEmpty ==
    ~has_machine_credentials =>
        /\ tokens["client"] = EmptyToken
        /\ (last.kind = "authenticate" /\ last.ok) =>
               last.value # tokens["client"].access_token

\* C22 amended: in injection-only mode no flow and no refresh ever
\* populates a slot; a slot changes only by an injection into that slot or
\* by a clear, and the client slot is populated exactly by
\* inject_client_token.  authenticate leaves the store as it is and returns
\* only what the selector finds there: the user slot's token for an
\* operation containing "ticket", and for any other operation the client
\* slot's token when usable, else the user slot's; when the selector finds
\* nothing the call fails with the no-credentials error.
C22_InjectionOnlySlots ==
    [][~has_machine_credentials =>
          /\ tokens'["client"] # tokens["client"] =>
                \/ last'.kind = "inject_client_token"
                \/ last'.kind = "clear_tokens" /\ tokens'["client"] = EmptyToken
          /\ tokens'["user"] # tokens["user"] =>
                \/ last'.kind = "inject_user_token"
                \/ last'.kind = "clear_tokens" /\ tokens'["user"] = EmptyToken
          /\ last'.kind = "authenticate" =>
                /\ tokens' = tokens
                /\ last'.calls = << >>
                /\ last'.ok <=> found(last'.op) # << >>
                /\ last'.ok => last'.value = found(last'.op)[1].access_token
                /\ ~last'.ok => last'.value = "no_credentials"
                /\ (last'.ok /\ last'.op \in TicketNames) =>
                      /\ usable("user")
                      /\ last'.value = tokens["user"].access_token]_vars

\* an injection-only manager whose authenticate("get_devices") returned the
\* token injected into the client slot
C22_Witness ==
    /\ ~has_machine_credentials
    /\ last.kind = "authenticate"
    /\ last.op = get_devices
    /\ last.ok
    /\ usable("client")
    /\ tokens["client"].access_token = "ic1"
    /\ last.value = "ic1"

\* the answer of the token endpoint that made the call fail, when an
\* exchange made it fail
ExchangeFailed(l) ==
    \/ l.kind = "exchange" /\ ~l.ok
    \/ /\ l.kind = "authenticate" /\ ~l.ok
       /\ \/ l.value = "client_flow_failed"
          \/ l.value = "user_flow_failed" /\ l.args.user.listener = "code"

FailedPost(l) ==
    IF l.kind = "exchange" THEN l.args.post
    ELSE IF l.value = "client_flow_failed" THEN l.args.client
    ELSE l.args.user.post

ProtocolRejection(f, o) ==
    /\ f.cls = "HTTPStatusError"
    /\ f.response = <<[status_code |-> o.status, text |-> o.body]>>

NetworkError(f) == f.cls \in TransportErrors /\ f.response = << >>

Cause(f) == IF f.context = << >> THEN f ELSE f.context[1]

\* what holds: an exchange called directly fails with what httpx raised;
\* authenticate fails with a plain Exception without response in either
\* case, whose text names the status of a rejection but not its body, and
\* whose __context__ is what the exchange raised.
C23_KindOnlyInCauseChain ==
    ExchangeFailed(last) =>
        LET f == last.args.failure[1]
            o == FailedPost(last)
        IN  /\ o.outcome = "rejected" => ProtocolRejection(Cause(f), o)
            /\ o.outcome = "network" => NetworkError(Cause(f))
            /\ last.kind = "exchange" => f.context = << >>
            /\ last.kind = "authenticate" =>
                  /\ f.cls = "Exception"
                  /\ f.response = << >>
                  /\ f.context # << >>
                  /\ f.message.status = (IF o.outcome = "rejected" THEN <<o.status>>
                                          ELSE << >>)

\* the values an authorization URL carries
UrlValues(url) == {url[k] : k \in DOMAIN url}

\* C24: within one interactive flow the authorization URL carries the S256
\* challenge derived from the verifier drawn for this flow, with method
\* S256, and carries the verifier nowhere; the code exchange posts that
\* verifier, not the challenge, with the code the callback captured and the
\* redirect URI the authorization URL named.
C24_PkceBinding ==
    [][
        /\ oauth'.auth_url # << >> =>
             /\ oauth'.auth_url[1].code_challenge = S256[oauth'.code_verifier]
             /\ oauth'.auth_url[1].code_challenge_method = "S256"
             /\ oauth'.code_verifier \notin UrlValues(oauth'.auth_url[1])
        /\ (oauth.pc = "exchanging" /\ oauth'.pc # "exchanging") =>
             /\ oauth'.posted # << >>
             /\ oauth'.code_verifier = oauth.code_verifier
             /\ oauth'.auth_url = oauth.auth_url
             /\ oauth'.posted[1].code_verifier = oauth.code_verifier
             /\ oauth'.posted[1].code_verifier # oauth.auth_url[1].code_challenge
             /\ oauth.auth_code \in Codes
             /\ oauth'.posted[1].code = oauth.auth_code
             /\ oauth'.posted[1].redirect_uri = oauth.auth_url[1].redirect_uri
        /\ oauth'.posted # << >> =>
             S256[oauth'.posted[1].code_verifier] = oauth'.auth_url[1].code_challenge
      ]_vars

\* a flow on the second verifier whose exchange posted the code that
\* replaced the one captured first
C24_Witness ==
    /\ oauth.pc = "returning"
    /\ oauth.code_verifier = "verifier2"
    /\ oauth.auth_url[1].code_challenge = "challenge2"
    /\ oauth.posted # << >>
    /\ oauth.posted[1].code_verifier = "verifier2"
    /\ oauth.posted[1].code = "code2"
    /\ oauth.auth_code = "code2"

\* C25: whenever authenticate(op) returns a string, it is the access_token
\* of a slot that is usable at the time of the call's last check, and for
\* an operation containing "ticket" it is the user slot's token and not the
\* client slot's; in every auth mode, with and without machine credentials,
\* after any sequence of injections, clears, refreshes, flows and ticks.
C25_ReturnsUsableSlotToken ==
    (last.kind = "authenticate" /\ last.ok) =>
        /\ present(last.value)
        /\ \E s \in Slots : usable(s) /\ last.value = tokens[s].access_token
        /\ last.op \in TicketNames =>
              /\ usable("user")
              /\ last.value = tokens["user"].access_token
              /\ last.value # tokens["client"].access_token

\* a ticket call answered with the user token obtained by a refresh while
\* the client slot is usable too
C25_Witness ==
    /\ last.kind = "authenticate"
    /\ last.op = List_Tickets
    /\ last.ok
    /\ last.path = "refreshed"
    /\ usable("client")
    /\ usable("user")
    /\ last.value = "rf1"
    /\ tokens["user"].access_token = "rf1"

Refreshes(l) == {i \in DOMAIN l.calls : l.calls[i] = "refresh_token"}

\* C26: when authenticate(op) is called while the selector finds nothing
\* for op and the user record is not usable and holds a refresh token, and
\* the refresh exchange succeeds with a lifetime that leaves a positive
\* window, the call returns the refreshed user token, for ticket and other
\* operations alike, and runs neither the client-credentials nor the
\* user-authorization flow.  No authenticate call posts more than one
\* refresh, and a refresh posts the user record's refresh token.
C26_RefreshThenReturn ==
    [][last'.kind = "authenticate" =>
          /\ Cardinality(Refreshes(last')) <= 1
          /\ \A i \in Refreshes(last') :
                /\ present(tokens["user"].refresh_token)
                /\ last'.args[i].refresh_token = tokens["user"].refresh_token
          /\ (/\ found(last'.op) = << >>
              /\ present(tokens["user"].refresh_token)
              /\ ~usable("user")
              /\ last'.refresh.ok
              /\ (last'.refresh.expires_in * 9) \div 10 > 0) =>
                /\ last'.ok
                /\ last'.value = last'.refresh.access_token
                /\ last'.value = tokens'["user"].access_token
                /\ is_valid(tokens'["user"], now)
                /\ last'.calls = <<"refresh_token">>
                /\ ~last'.listener
                /\ tokens'["client"] = tokens["client"]]_vars

\* a ticket call answered by a refresh that posted the refresh token of the
\* user record while the client record, usable, holds another one
C26_Witness ==
    /\ last.kind = "authenticate"
    /\ last.op = create_ticket
    /\ last.ok
    /\ last.calls = <<"refresh_token">>
    /\ last.value = "rf1"
    /\ last.args[1].refresh_token = "rt1"
    /\ usable("client")
    /\ tokens["client"].refresh_token = "irt"

\* the call set the slot: an injection into it, at run time or from the
\* environment at start-up, or a flow or refresh that stored its answer
SetsSlot(l, s) ==
    \/ l.kind = "inject_client_token" /\ s = "client"
    \/ l.kind = "inject_user_token" /\ s = "user"
    \/ l.kind = "inject_tokens_from_dict" /\ s \in DOMAIN l.args
    \/ l.kind = "initialize" /\ present(EnvToken(l.args, s))
    \/ /\ l.kind = "authenticate"
       /\ \/ s = "client" /\ "client_credentials" \in Exchanged(l) /\ l.exchange.ok
          \/ s = "user" /\ "authorization_code" \in Exchanged(l) /\ l.exchange.ok
          \/ s = "user" /\ "refresh_token" \in Exchanged(l) /\ l.refresh.ok

\* the call cleared the slot, or a new manager was constructed
ClearsSlot(l, s) ==
    \/ l.kind = "clear_tokens" /\ l.slot \in {s, "all"}
    \/ l.kind = "restart"

expired(t, clock) == t # EmptyToken /\ ~is_valid(t, clock)

\* C27 as claimed: a slot becomes usable only through a set; a usable slot
\* becomes expired only by the passage of time; clear leaves the slot
\* empty; without a set, an unusable slot stays unusable.
C27_LifecycleBySetAndTimeOnly ==
    [][\A s \in Slots :
          /\ (~usable(s) /\ is_valid(tokens'[s], now')) => SetsSlot(last', s)
          /\ (usable(s) /\ expired(tokens'[s], now')) =>
                (now' > now /\ tokens'[s] = tokens[s])
          /\ ClearsSlot(last', s) => tokens'[s] = EmptyToken
          /\ (~usable(s) /\ ~SetsSlot(last', s)) => ~is_valid(tokens'[s], now')]_vars

\* C27 amended: a slot becomes usable only through a set or through the
\* load of the token file at start-up; a usable slot becomes expired by the
\* passage of time, or at once when a set or the start-up replaces its
\* record by one that is already expired; clear leaves the slot empty;
\* without a set and without a start-up load an unusable slot stays
\* unusable, and a record unusable at one time is unusable at every later
\* time.
C27_Lifecycle ==
    [][\A s \in Slots :
          /\ (~usable(s) /\ is_valid(tokens'[s], now')) =>
                \/ SetsSlot(last', s)
                \/ /\ last'.kind = "initialize"
                   /\ tokens'[s] = load_tokens(tokens, file)[s]
          /\ (usable(s) /\ expired(tokens'[s], now')) =>
                \/ now' > now /\ tokens'[s] = tokens[s]
                \/ /\ SetsSlot(last', s) \/ last'.kind = "initialize"
                   /\ now' = now
                   /\ tokens'[s] # tokens[s]
          /\ ClearsSlot(last', s) => tokens'[s] = EmptyToken
          /\ (~usable(s) /\ ~SetsSlot(last', s) /\ last'.kind # "initialize") =>
                ~is_valid(tokens'[s], now')
          /\ \A t1 \in Times : \A t2 \in Times :
                (t1 <= t2 /\ ~is_valid(tokens[s], t1)) => ~is_valid(tokens[s], t2)]_vars

\* a slot that the start-up made usable from the token file alone, after a
\* restart had left it empty
C27_Witness ==
    /\ last.kind = "initialize"
    /\ ~present(EnvToken(last.args, "user"))
    /\ usable("user")
    /\ tokens["user"].access_token = "iu1"
    /\ file.origin = "earlier"

InjectedSlot(l) == IF l.kind = "inject_client_token" THEN "client" ELSE "user"

InjectedToken(l) == IF l.kind = "inject_client_token" THEN "ic1" ELSE "iu1"

ExpiresAt(expires_in) == <<now + ((expires_in * 9) \div 10) * TicksPerSecond>>

\* the flow of the call stored its answer; the refresh of the call stored
\* its answer and no flow replaced it
FlowStored(l, grant) ==
    l.kind = "authenticate" /\ grant \in Exchanged(l) /\ l.exchange.ok

RefreshStored(l) ==
    /\ l.kind = "authenticate" /\ "refresh_token" \in Exchanged(l) /\ l.refresh.ok
    /\ ~FlowStored(l, "authorization_code")

\* C28 as claimed: a set or injection that supplies no refresh token leaves
\* the slot without refresh token, and one that supplies no scope leaves it
\* without scope.
C28_NothingSuppliedNothingStored ==
    [][last'.kind \in SetKinds =>
          /\ ~present(last'.args.refresh_token) =>
                ~present(tokens'[InjectedSlot(last')].refresh_token)
          /\ ~present(last'.args.scope) =>
                ~present(tokens'[InjectedSlot(last')].scope)]_vars

\* C28 amended: a set replaces the whole record, and every field of the new
\* record comes from the call, whatever the old record held: an injection
\* stores the given access token and refresh token (none when none is
\* given) and the given scope, or the configured scope when none is given;
\* a flow stores what the token endpoint answered, with no refresh token
\* and no scope when the answer has none; only the refresh stores the old
\* refresh token when the answer has none.
C28_SetReplacesWholeRecord ==
    [][
        /\ last'.kind \in SetKinds =>
              tokens'[InjectedSlot(last')] =
                  TokenInfo(InjectedToken(last'), last'.args.refresh_token,
                            ExpiresAt(last'.expires_in),
                            IF present(last'.args.scope) THEN last'.args.scope
                            ELSE DefaultScopes,
                            TRUE)
        /\ FlowStored(last', "client_credentials") =>
              tokens'["client"] =
                  TokenInfo(last'.exchange.access_token, NONE,
                            ExpiresAt(last'.exchange.expires_in),
                            get(last'.exchange, "scope"), TRUE)
        /\ FlowStored(last', "authorization_code") =>
              tokens'["user"] =
                  TokenInfo(last'.exchange.access_token,
                            get(last'.exchange, "refresh_token"),
                            ExpiresAt(last'.exchange.expires_in),
                            get(last'.exchange, "scope"), TRUE)
        /\ RefreshStored(last') =>
              tokens'["user"] =
                  TokenInfo(last'.refresh.access_token,
                            IF last'.refresh.refresh_token = ABSENT
                            THEN tokens["user"].refresh_token
                            ELSE last'.refresh.refresh_token,
                            ExpiresAt(last'.refresh.expires_in),
                            get(last'.refresh, "scope"), TRUE)
      ]_vars

\* an injection into the user slot without refresh token and scope that
\* left the slot without refresh token and with the configured scope
C28_Witness ==
    /\ last.kind = "inject_user_token"
    /\ last.args = [refresh_token |-> NONE, scope |-> NONE]
    /\ tokens["user"].access_token = "iu1"
    /\ tokens["user"].refresh_token = NONE
    /\ tokens["user"].scope = DefaultScopes

\* no injection without refresh token and scope ever replaces a record that
\* held both (refuted: such replacements occur)
C28_NeverOverPopulated ==
    [][~(/\ last'.kind = "inject_user_token"
         /\ last'.args = [refresh_token |-> NONE, scope |-> NONE]
         /\ present(tokens["user"].refresh_token)
         /\ tokens["user"].scope = "monitoring")]_vars

\* the store a set or clear is to leave, computed from its arguments
Intended(l, toks) ==
    IF l.kind = "clear_tokens"
    THEN [s \in Slots |-> IF l.slot \in {s, "all"} THEN EmptyToken ELSE toks[s]]
    ELSE [s \in Slots |->
            IF s = InjectedSlot(l)
            THEN TokenInfo(InjectedToken(l), l.args.refresh_token, ExpiresAt(l.expires_in),
                           IF present(l.args.scope) THEN l.args.scope ELSE DefaultScopes,
                           TRUE)
            ELSE toks[s]]

\* C29: when the write of the token file fails during a set or a clear, the
\* call returns normally and the store in memory holds the new record; the
\* file is not rewritten: it keeps what it held, or is left cut short when
\* the write failed after the file was opened.  Until the next set or clear
\* the store in memory does not change, and authenticate returns the new
\* token from it.
C29_FailedWriteNotEscalated ==
    [][
        /\ (last'.kind \in SetKinds \cup {"clear_tokens"} /\ ~last'.write_ok) =>
              /\ last'.ok
              /\ tokens' = Intended(last', tokens)
              /\ file'.origin # "saved"
              /\ \/ /\ file'.exists = file.exists /\ file'.readable = file.readable
                    /\ file'.order = file.order /\ file'.data = file.data
                 \/ file'.exists /\ ~file'.readable
        /\ last'.kind \notin SetKinds \cup {"clear_tokens"} => tokens' = tokens
        /\ (last'.kind = "authenticate" /\ found(last'.op) # << >>) =>
              /\ last'.ok
              /\ last'.value = found(last'.op)[1].access_token
      ]_vars

\* authenticate returned the injected user token although no write of the
\* token file has ever succeeded
C29_Witness ==
    /\ last.kind = "authenticate"
    /\ last.ok
    /\ last.value = "iu1"
    /\ tokens["user"].access_token = "iu1"
    /\ ~file.exists

\* an injection whose write failed and left the file of an earlier save
\* cut short
C29_CutShort ==
    /\ last.kind = "inject_user_token"
    /\ ~last.write_ok
    /\ tokens["user"].access_token = "iu1"
    /\ file.origin = "cut"

\* C30: every call of the interactive flow terminates: once the listener
\* is started and the wait loop entered, the call returns or raises.
C30_FlowTerminates ==
    (oauth.pc = "polling") ~> (oauth.pc \in {"returned", "raised"})

\* the part of C30 the code provides: the wait loop ends and the call
\* reaches its cleanup
C30_WaitLoopEnds ==
    (oauth.pc = "polling") ~> (oauth.pc \in {"returning", "raising"})

\* the part of C30 the code provides: the loop tests the captured values
\* at most 300 times with one sleep after each test that found nothing;
\* after it a captured error is raised as that error, nothing captured
\* raises the timeout, and only a captured code without error goes on to
\* the exchange
C30_WaitLoopOutcomes ==
    [][
       /\ oauth'.checks <= timeout
       /\ oauth'.polls <= oauth'.checks
       /\ oauth'.checks <= oauth'.polls + 1
       /\ (oauth.pc = "polling" /\ oauth'.polls # oauth.polls) =>
              /\ oauth'.polls = oauth.polls + 1
              /\ oauth'.checks = oauth.checks + 1
              /\ ~Truthy(oauth.auth_code) /\ ~Truthy(oauth.auth_error)
       /\ (oauth.pc = "check" /\ oauth'.pc # "check" /\ Truthy(oauth.auth_error)) =>
              /\ oauth'.pc = "raising"
              /\ oauth'.raised = <<"Authorization failed", oauth.auth_error>>
       /\ (oauth.pc = "check" /\ oauth'.pc # "check"
             /\ ~Truthy(oauth.auth_error) /\ ~Truthy(oauth.auth_code)) =>
              /\ oauth'.pc = "raising"
              /\ oauth'.raised = <<"Authorization timed out">>
              /\ oauth.polls = timeout
       /\ (oauth.pc # "exchanging" /\ oauth'.pc = "exchanging") =>
              /\ oauth.pc = "check"
              /\ Truthy(oauth.auth_code)
              /\ ~Truthy(oauth.auth_error)
       /\ oauth'.posted # oauth.posted /\ oauth'.posted # << >> =>
              /\ oauth.pc = "exchanging"
              /\ Truthy(oauth.auth_code)
      ]_vars

C30_Witness ==
    /\ oauth.pc = "raising"
    /\ oauth.held
    /\ oauth.polls = timeout
    /\ oauth.raised = <<"Authorization timed out">>

\* C31: authenticate calls are not deduplicated: a call whose first look
\* at the store finds no usable token triggers an exchange or flow of its
\* own in that same step, whatever the other call is awaiting; so two
\* overlapping calls can both refresh with the same refresh token, both
\* request client credentials, or both start the interactive flow, the
\* second finding the port taken.
C31_NoDeduplication ==
    [][\A p \in Tasks :
          (/\ callers[p].pc \in {"idle", "done"}
           /\ callers'[p] # callers[p]
           /\ callers'[p].kind = "authenticate"
           /\ callers'[p].observed)
          => /\ callers'[p].flows # << >>
             /\ callers'[p].result # "joined"
             /\ (callers'[p].pc = "done" =>
                    /\ callers'[p].flows = <<"user_authorization">>
                    /\ oauth.bound)
      ]_vars

\* two refreshes with the same refresh token are awaited at once
C31_Witness ==
    /\ \A p \in Tasks : /\ callers[p].pc = "exchange"
                        /\ callers[p].exchange = "refresh_token"
                        /\ callers[p].observed
    /\ callers[1].arg = callers[2].arg
    /\ Truthy(callers[1].arg)

\* two client-credentials exchanges are awaited at once
C31_TwoClientCredentials ==
    \A p \in Tasks : /\ callers[p].pc = "exchange"
                     /\ callers[p].exchange = "client_credentials"

\* one interactive flow is awaited and the other call's flow has failed on
\* the port
C31_PortContention ==
    \E p \in Tasks :
        /\ callers[p].pc = "exchange"
        /\ callers[p].exchange = "user_authorization"
        /\ \E q \in Tasks \ {p} : /\ callers[q].pc = "done"
                                  /\ callers[q].result = "user_flow_failed"
                                  /\ callers[q].flows = <<"user_authorization">>

\* C32: once every overlapping call has returned, the token file holds
\* the store as it is in memory.
C32_FileEqualsStoreOnceQuiet ==
    (Quiet /\ file.exists) =>
        /\ file.readable
        /\ file.order = SlotOrder
        /\ file.data = save_tokens(tokens).data

\* the same for the files that can still be read: none holds a slot that
\* differs from the store
C32_NoStaleSlot ==
    (Quiet /\ file.exists /\ file.readable) => file.data = save_tokens(tokens).data

\* the part of C32 the code provides: a file left readable holds the store
\* as it was when one of the calls prepared its data
C32_FileIsSomeSnapshot ==
    [][\A p \in Tasks :
          (callers[p].pc = "flush" /\ callers'[p].pc = "finish" /\ file'.readable)
          => file' = save_tokens(callers[p].snapshot[1])
      ]_vars

FlowRaised(l) == l.kind = "authenticate" /\ l.value \in FlowFailures

RefreshSucceeded(l) == "refresh_token" \in Exchanged(l) /\ l.refresh.ok

\* C33: a client-credentials or user-authorization flow of authenticate
\* that fails changes neither slot and writes nothing: when no refresh
\* succeeded in the call, store and file are as before the call; when one
\* did, they are as the refresh left them.
C33_FailedFlowLeavesStore ==
    [][FlowRaised(last') =>
          IF RefreshSucceeded(last')
          THEN /\ last'.saves = 1
               /\ tokens' = refresh_user_token(tokens, has_machine_credentials,
                                               last'.refresh, now).tokens
               /\ file' = save_tokens(tokens')
          ELSE /\ last'.saves = 0
               /\ tokens' = tokens
               /\ file' = file
      ]_vars

\* a client-credentials flow has failed on a store that held a client token
\* past its expiry and a user token
C33_Witness ==
    /\ FlowRaised(last)
    /\ last.value = "client_flow_failed"
    /\ ~RefreshSucceeded(last)
    /\ tokens["client"].access_token = "ic1"
    /\ tokens["user"].access_token = "iu1"
    /\ file.exists

\* a flow has failed after the refresh of the same call succeeded
C33_AfterRefresh ==
    /\ FlowRaised(last)
    /\ RefreshSucceeded(last)

\* authenticate(op) for a ticket operation in auth mode "client" with
\* machine credentials, on a user slot that is neither usable nor
\* refreshable
ClientModeTicketCall(l) ==
    /\ l.kind = "authenticate"
    /\ is_ticket_operation(l.op)
    /\ auth_mode = "client"
    /\ has_machine_credentials
    /\ ~is_valid(tokens["user"], now)
    /\ ~Truthy(tokens["user"].refresh_token)

\* C34: such a call always fails, and it performs exactly one
\* client-credentials exchange before it does: when the exchange fails the
\* call raises the failure of the flow and the store is as before; when
\* the exchange succeeds the client slot is replaced by the response's
\* token, the store is written, and the call raises "authentication
\* failed" all the same.
C34_FailingCallChangesStore ==
    [][ClientModeTicketCall(last') =>
          /\ ~last'.ok
          /\ last'.calls = <<"client_credentials">>
          /\ IF last'.exchange.ok
             THEN /\ last'.value = "authentication_failed"
                  /\ tokens' = set_token(tokens, "client", last'.exchange.access_token,
                                         last'.exchange.expires_in, NONE,
                                         get(last'.exchange, "scope"), now)
                  /\ last'.saves = 1
                  /\ file' = save_tokens(tokens')
             ELSE /\ last'.value = "client_flow_failed"
                  /\ last'.saves = 0
                  /\ tokens' = tokens
                  /\ file' = file
      ]_vars

\* such a call has failed and left the token of its exchange in the client
\* slot and in the file
C34_Witness ==
    /\ ClientModeTicketCall(last)
    /\ ~last.ok
    /\ last.value = "authentication_failed"
    /\ last.exchange.ok
    /\ tokens["client"].access_token = "cc1"
    /\ is_valid(tokens["client"], now)
    /\ file.exists
    /\ file.data["client"].access_token = "cc1"

\* C35: reauthorize_user() clears and writes the user slot before the
\* flow runs and puts nothing back: the call succeeds only when machine
\* credentials exist and the flow's exchange succeeded, and otherwise it
\* raises with the user slot empty in memory and in the file, whatever the
\* slot held before; without machine credentials no flow is started and
\* the call always ends so.
C35_ReauthorizeNotAtomic ==
    [][last'.kind = "reauthorize_user" =>
          /\ last'.args.user_before = tokens["user"]
          /\ last'.ok => (has_machine_credentials /\ last'.exchange.ok)
          /\ ~has_machine_credentials =>
                (~last'.ok /\ ~last'.listener /\ last'.calls = << >>)
          /\ ~last'.ok =>
                /\ last'.saves = 1
                /\ tokens'["user"] = EmptyToken
                /\ file'.exists /\ file'.readable
                /\ file'.data["user"] = dump_token(EmptyToken)
      ]_vars

\* without machine credentials the call has raised and a usable injected
\* user token with its refresh token is gone
C35_Witness ==
    /\ last.kind = "reauthorize_user"
    /\ ~last.ok
    /\ ~has_machine_credentials
    /\ is_valid(last.args.user_before, last.at)
    /\ last.args.user_before.access_token = "iu1"
    /\ last.args.user_before.refresh_token = "irt"
    /\ tokens["user"] = EmptyToken
    /\ file.data["user"] = dump_token(EmptyToken)

\* with machine credentials the flow has failed and the same is lost
C35_FlowFailed ==
    /\ last.kind = "reauthorize_user"
    /\ ~last.ok
    /\ last.listener
    /\ is_valid(last.args.user_before, last.at)
    /\ last.args.user_before.refresh_token = "irt"
    /\ tokens["user"] = EmptyToken

C37_ExactlyTwoSlots ==
    /\ DOMAIN tokens = Slots
    /\ (file.exists /\ file.readable) => DOMAIN file.data = Slots

\* the part of C37 the code provides: both slots are always there, and a
\* name clear_all_tokens or a restart finds is gone from memory afterwards
C37_TwoSlotsAlwaysPresent ==
    /\ Slots \subseteq DOMAIN tokens
    /\ DOMAIN tokens \subseteq Slots \cup {OtherSlot}
    /\ (file.exists /\ file.readable) => Slots \subseteq DOMAIN file.data
    /\ (last.kind = "restart" \/ last.slot = "all") => DOMAIN tokens = Slots

\* a file with a third entry has been loaded into a store of two slots
C37_LoadSkipsOtherName ==
    /\ last.kind = "initialize"
    /\ file.exists
    /\ OtherSlot \in DOMAIN file.data
    /\ DOMAIN tokens = Slots

\* C38: the listener takes a code only from a request on /callback that
\* carries code and an error only from a request that carries error, and a
\* request that is neither leaves a captured code in force: when the call
\* looks at the listener after its wait and a code has been captured, it
\* goes on to the code exchange unless a redirect brought an error.
C38_CaptureAndPrecedence ==
    [][
       /\ Truthy(oauth'.auth_code) => oauth'.code_path = "/callback"
       /\ Truthy(oauth'.auth_error) => oauth'.error_from = "parameter"
       /\ (/\ oauth.pc = "check" /\ oauth'.pc # "check"
           /\ Truthy(oauth.auth_code)
           /\ oauth.error_from # "parameter")
          => oauth'.pc = "exchanging"
      ]_vars

\* the three parts of C38 one by one
C38_CodeOnlyFromCallbackRoute == Truthy(oauth.auth_code) => oauth.code_path = "/callback"

C38_ErrorOnlyFromErrorParameter == Truthy(oauth.auth_error) => oauth.error_from = "parameter"

C38_StrayRequestDoesNotFailFlow ==
    [][(/\ oauth.pc = "check" /\ oauth'.pc # "check"
        /\ Truthy(oauth.auth_code)
        /\ oauth.error_from # "parameter")
       => oauth'.pc = "exchanging"]_vars

\* the part of C38 the code provides: a captured code with no captured
\* error goes on to the exchange
C38_CodeAloneProceeds ==
    [][(/\ oauth.pc = "check" /\ oauth'.pc # "check"
        /\ Truthy(oauth.auth_code)
        /\ ~Truthy(oauth.auth_error))
       => oauth'.pc = "exchanging"]_vars

\* C39: the state of the authorization URL is sent and never checked: the
\* URL carries it, the handler keeps no state of a request apart from what
\* is recorded here, a captured code goes on to the exchange whatever state
\* came with it, the form posted carries that code and no state, and the
\* token the exchange returns is stored in the user slot.
C39_StateNeverChecked ==
    [][
       /\ oauth'.auth_url # << >> => oauth'.auth_url[1].state = "state"
       /\ (/\ oauth.pc = "check" /\ oauth'.pc # "check"
           /\ Truthy(oauth.auth_code) /\ ~Truthy(oauth.auth_error))
          => oauth'.pc = "exchanging"
       /\ (oauth.pc = "exchanging" /\ oauth'.pc # "exchanging")
          => /\ oauth'.posted[1].code = oauth.auth_code
             /\ "state" \notin DOMAIN oauth'.posted[1]
       /\ (oauth.pc = "returned" /\ oauth'.pc = "stored")
          => /\ tokens'["user"].access_token = oauth.token_data[1].access_token
             /\ tokens'["user"].valid
             /\ file'.data["user"].access_token = tokens'["user"].access_token
      ]_vars

\* a code that came with another state has been exchanged and the token
\* stored in the user slot
C39_Witness ==
    /\ oauth.pc = "stored"
    /\ oauth.code_state = "forged"
    /\ oauth.auth_url[1].state = "state"
    /\ oauth.posted[1].code = oauth.auth_code
    /\ tokens["user"].access_token = "ua1"
    /\ file.data["user"].access_token = "ua1"

\* the same for a code that came with no state
C39_NoState ==
    /\ oauth.pc = "stored"
    /\ oauth.code_state = ABSENT
    /\ tokens["user"].access_token = "ua1"

====
